------------------------------ MODULE Spec2Model ------------------------------
(***************************************************************************)
(* Two-pass LLM extraction pipeline of AI-Scrapping                        *)
(* (src/src/llm/enhanced_data_extractor.py) together with the OpenAI       *)
(* provider it calls (src/src/llm/providers/openai_provider.py).           *)
(*                                                                         *)
(* Python values are tagged records, so that values of different Python    *)
(* types can be compared: a str is [t |-> "str", s |-> ...], a dict is     *)
(* [t |-> "dict", d |-> function from keys to values], and so on.  Chunk   *)
(* texts and keywords are tuples of one-character strings, so that         *)
(* `kw in chunk_lower` is a real substring search and len(chunk) is the    *)
(* real length.  Floats are integers counting thousandths (0.5 is 500).    *)
(***************************************************************************)
EXTENDS Integers, Sequences, FiniteSets, TLC

VARIABLES
    chunks,             \* the chunks argument: a sequence of Python values
    llm_provider,       \* the llm_provider argument: the behaviours its backend can show
    max_chunks,         \* the max_chunks argument of extract_from_prioritized_chunks
    max_workers,        \* the max_workers argument of enhanced_extract_data_from_chunks
    pc,                 \* position of the coordinating thread
    tasks,              \* pass 1: state of each submitted future
    futures,            \* pass 1: outcome stored in each finished future
    analyses,           \* pass 1: the analyses list of the coordinator
    completion_order,   \* pass 1: chunk_index of the futures in the order as_completed gave them
    p1_outcome,         \* pass 1: what llm_provider.extract did for each chunk
    p1_calls,           \* pass 1: number of llm_provider.extract calls per chunk
    sorted_analyses,    \* pass 2: the prioritised (and capped) analyses
    group_order,        \* pass 2: keys of chunks_by_type in insertion order
    cursor,             \* pass 2: <<group number, position in the group>>
    type_results,       \* pass 2: the dicts collected for the current group
    p2_calls,           \* pass 2: chunk_index and behaviour of each llm_provider.extract call
    p2_outcome,         \* pass 2: what llm_provider.extract did at each call
    extraction_results, \* pass 2: content_type -> list of per-chunk dicts
    aggregated,         \* the returned mapping (or the raised error)
    results_after,      \* the extraction results as the aggregation leaves them
    shared,             \* <<type, result, key>> of the input objects the returned mapping holds
    respect_robots,     \* RobotsChecker.respect_robots
    rate_limit,         \* RobotsChecker.rate_limit, in seconds
    user_agent,         \* RobotsChecker.user_agent
    parsers,            \* RobotsChecker.parsers: domain -> cached policy parser
    last_request_time,  \* RobotsChecker.last_request_time: domain -> time
    robots_txt,         \* the policy document each domain serves
    clock,              \* the wall clock, in seconds
    can_fetch_calls,    \* position of each thread inside can_fetch
    calls_started,      \* number of can_fetch calls made so far
    fetch_results,      \* what the can_fetch calls returned, in order of return
    request_log,        \* the updates of last_request_time, in order
    policy_reads,       \* the retrievals of a policy document, in order
    source_text,        \* chunk_by_length: the text argument, character by character
    max_length,         \* chunk_by_length: the max_length argument
    overlap,            \* chunk_by_length: the overlap argument
    look_back,          \* chunk_by_length: how far back a break point is looked for
    start,              \* chunk_by_length: start of the current window (0-based)
    windows,            \* chunk_by_length: <<start, cut>> of every window so far
    length_chunks,      \* chunk_by_length: the chunks appended so far
    document,           \* html_to_chunks: the block-level elements of the page, in order
    method,             \* html_to_chunks: the method argument
    html_chunks,        \* html_to_chunks: the returned chunks, each with its origin
    site_url,           \* detect_website_type: the url argument
    content_sample,     \* detect_website_type: the content argument
    website_type,       \* detect_website_type: the returned WebsiteType
    matched_by,         \* detect_website_type: the branch that returned
    pdf_exists,         \* extract_text_from_pdf: os.path.exists(pdf_path)
    pdf_engines,        \* extract_text_from_pdf: what each engine does with the file
    engines_tried,      \* extract_text_from_pdf: the engines called so far, in order
    pdf_text            \* extract_text_from_pdf: the returned text

inputVars == <<chunks, llm_provider, max_chunks, max_workers>>
pass1Vars == <<tasks, futures, analyses, completion_order, p1_outcome, p1_calls>>
pass2Vars == <<sorted_analyses, group_order, cursor, type_results, p2_calls, p2_outcome,
               extraction_results, aggregated, results_after, shared>>
robotsVars == <<respect_robots, rate_limit, user_agent, parsers, last_request_time, robots_txt, clock,
                can_fetch_calls, calls_started, fetch_results, request_log, policy_reads>>
chunkerVars == <<source_text, max_length, overlap, look_back, start, windows, length_chunks,
                 document, method, html_chunks>>
detectVars == <<site_url, content_sample, website_type, matched_by>>
pdfVars == <<pdf_exists, pdf_engines, engines_tried, pdf_text>>
vars == <<inputVars, pc, pass1Vars, pass2Vars, robotsVars, chunkerVars, detectVars, pdfVars>>

(***************************************************************************)
(* Bounds of the model.                                                    *)
(***************************************************************************)
MaxChunks == 3
MaxPipelineChunks == 2
MaxResults == 3
MaxCalls == 3
MaxClock == 6
MaxText == 5
MaxWindow == 3
MaxElements == 3

(***************************************************************************)
(* Python values.                                                          *)
(***************************************************************************)
PyNone == [t |-> "none"]
PyBool(b) == [t |-> "bool", b |-> b]
PyNum(n) == [t |-> "num", n |-> n]          \* a float; n counts thousandths
PyInt(n) == [t |-> "int", n |-> n]          \* an int
PyStr(s) == [t |-> "str", s |-> s]          \* a str held as one atom
PyText(c) == [t |-> "str", chars |-> c]     \* a str held character by character
IsText(v) == v.t = "str" /\ "chars" \in DOMAIN v
PyList(l) == [t |-> "list", l |-> l]
PyDict(d) == [t |-> "dict", d |-> d]
EmptyDict == PyDict(<<>>)

IsDict(v) == v.t = "dict"
HasKey(v, k) == k \in DOMAIN v.d
\* dict.get(k, default)
Get(v, k, default) == IF HasKey(v, k) THEN v.d[k] ELSE default
\* hash(v) succeeds: lists and dicts are unhashable
Hashable(v) == v.t \notin {"list", "dict"}

Min(a, b) == IF a <= b THEN a ELSE b
Max(a, b) == IF a >= b THEN a ELSE b
Range(s) == {s[i] : i \in DOMAIN s}

(***************************************************************************)
(* Text: tuples of one-character strings.                                  *)
(***************************************************************************)
UpperCase ==
    ("A" :> "a") @@ ("B" :> "b") @@ ("C" :> "c") @@ ("G" :> "g") @@
    ("H" :> "h") @@ ("M" :> "m") @@ ("P" :> "p") @@ ("R" :> "r") @@
    ("U" :> "u") @@ ("Z" :> "z")
\* str.lower()
Lower(s) == [i \in DOMAIN s |-> IF s[i] \in DOMAIN UpperCase THEN UpperCase[s[i]] ELSE s[i]]
\* kw in s
Contains(s, kw) ==
    \E i \in 1..(Len(s) - Len(kw) + 1) : \A j \in 1..Len(kw) : s[i + j - 1] = kw[j]
Digits == {"0", "1", "2", "3", "4", "5", "6", "7", "8", "9"}
Blank == {" "}
\* re.search(r'\d+\s*€', s)
SearchAmount(s) ==
    \E i \in 1..Len(s) : \E j \in (i + 1)..Len(s) :
        /\ s[i] \in Digits
        /\ s[j] = "€"
        /\ \A k \in (i + 1)..(j - 1) : s[k] \in Blank

specs_keywords ==
    << <<"p", "r", "o", "c", "e", "s", "s", "e", "u", "r">>,
       <<"c", "p", "u">>,
       <<"r", "a", "m">>,
       <<"m", "é", "m", "o", "i", "r", "e">>,
       <<"s", "t", "o", "c", "k", "a", "g", "e">>,
       <<"é", "c", "r", "a", "n">>,
       <<"b", "a", "t", "t", "e", "r", "i", "e">>,
       <<"m", "a", "h">>,
       <<"m", "p">>,
       <<"g", "h", "z">> >>
pricing_keywords ==
    << <<"€">>,
       <<"p", "r", "i", "x">>,
       <<"c", "o", "û", "t">>,
       <<"p", "r", "o", "m", "o", "t", "i", "o", "n">>,
       <<"o", "f", "f", "r", "e">>,
       <<"t", "a", "r", "i", "f">> >>
review_keywords ==
    << <<"p", "o", "i", "n", "t", "s", " ", "f", "o", "r", "t", "s">>,
       <<"p", "o", "i", "n", "t", "s", " ", "f", "a", "i", "b", "l", "e", "s">>,
       <<"v", "e", "r", "d", "i", "c", "t">>,
       <<"n", "o", "t", "e">>,
       <<"a", "v", "i", "s">>,
       <<"c", "r", "i", "t", "i", "q", "u", "e">> >>

\* sum(1 for kw in keywords if kw in s)
KeywordHits(s, keywords) == Cardinality({i \in DOMAIN keywords : Contains(s, keywords[i])})

(***************************************************************************)
(* ChunkAnalysis (the dataclass): a record.  relevance_score counts        *)
(* thousandths; the fields an LLM response fills without validation hold   *)
(* Python values.                                                          *)
(***************************************************************************)
ChunkAnalysis(index, ctype, score, cs, cp, cr, topics, prio) ==
    [chunk_index |-> index, content_type |-> ctype, relevance_score |-> score,
     contains_specs |-> cs, contains_pricing |-> cp, contains_review |-> cr,
     key_topics |-> topics, priority |-> prio]

\* The result of a call: either a returned value or a raised exception.
Returned(v) == [raised |-> FALSE, value |-> v]
Raised(e) == [raised |-> TRUE, error |-> e]

BoolInt(b) == IF b THEN 1 ELSE 0

\* A plausible slip in lines 219-230: the review test placed before the
\* pricing test.
heuristic_content_type_review_first(hits, contains_specs, contains_pricing, contains_review) ==
    IF contains_specs /\ hits >= 3 THEN <<"specs", 1>>
    ELSE IF contains_review THEN <<"review", 1>>
    ELSE IF contains_pricing THEN <<"pricing", 2>>
    ELSE <<"general", 3>>

\* EnhancedDataExtractor._heuristic_analysis, lines 218-230: <<content_type, priority>>.
heuristic_content_type(hits, contains_specs, contains_pricing, contains_review) ==
    IF contains_specs /\ hits >= 3 THEN <<"specs", 1>>
    ELSE IF contains_pricing THEN <<"pricing", 2>>
    ELSE IF contains_review THEN <<"review", 1>>
    ELSE <<"general", 3>>

\* EnhancedDataExtractor._heuristic_analysis.  chunk.lower() raises
\* AttributeError when the chunk is not a str.
heuristic_analysis(chunk, index) ==
    IF chunk.t # "str" THEN Raised("AttributeError")
    ELSE
    LET chunk_lower == Lower(chunk.chars)
        hits == KeywordHits(chunk_lower, specs_keywords)
        contains_specs == hits >= 2
        contains_pricing ==
            \/ \E i \in DOMAIN pricing_keywords : Contains(chunk_lower, pricing_keywords[i])
            \/ SearchAmount(chunk.chars)
        contains_review == KeywordHits(chunk_lower, review_keywords) >= 1
        kind == heuristic_content_type(hits, contains_specs, contains_pricing, contains_review)
        relevance_score ==
            Min(1000, Len(chunk.chars) + BoolInt(contains_specs) * 300
                      + BoolInt(contains_pricing) * 200 + BoolInt(contains_review) * 300)
    IN  Returned(ChunkAnalysis(index, PyStr(kind[1]), relevance_score,
                               PyBool(contains_specs), PyBool(contains_pricing),
                               PyBool(contains_review), PyList(<<>>), kind[2]))

(***************************************************************************)
(* The extraction capability.  A behaviour is what the provider's backend  *)
(* does at one call; OpenAIProvider.extract turns it into a returned value *)
(* or a raised exception.                                                  *)
(***************************************************************************)
NoApiKey == [kind |-> "no_api_key"]       \* self.api_key is empty
ApiError == [kind |-> "api_error"]        \* the API call raises (error, timeout)
BadJson == [kind |-> "bad_json"]          \* the reply is not parseable JSON
Json(v) == [kind |-> "json", value |-> v] \* the reply parses to the value v

Ellipsis == <<".", ".", ".">>
\* content[:100] + "..."
Excerpt(content) == PyText(SubSeq(content.chars, 1, Min(100, Len(content.chars))) \o Ellipsis)

\* OpenAIProvider.extract(content, instruction, "json")
OpenAIProvider_extract(content, behaviour) ==
    CASE behaviour.kind = "no_api_key" -> Raised("ValueError")
      [] behaviour.kind = "api_error" ->
            IF content.t = "str"
            THEN Returned(PyDict(("error" :> PyStr("api")) @@ ("content" :> Excerpt(content))))
            ELSE Raised("TypeError")
      [] behaviour.kind = "bad_json" ->
            Returned(PyDict(("raw_response" :> PyStr("raw")) @@ ("error" :> PyStr("parsing_error"))))
      [] OTHER -> Returned(behaviour.value)

(***************************************************************************)
(* float() and int() on the values a response can hold.                    *)
(***************************************************************************)
FloatOfStr == ("0.8" :> 800) @@ ("2" :> 2000) @@ ("2.5" :> 2500)
IntOfStr == ("2" :> 2)
Truncate(n) == IF n >= 0 THEN n \div 1000 ELSE -((-n) \div 1000)

float(v) ==
    CASE v.t = "num" -> Returned(v.n)
      [] v.t = "bool" -> Returned(BoolInt(v.b) * 1000)
      [] v.t = "str" /\ ~IsText(v) /\ v.s \in DOMAIN FloatOfStr -> Returned(FloatOfStr[v.s])
      [] v.t = "str" -> Raised("ValueError")
      [] OTHER -> Raised("TypeError")

int(v) ==
    CASE v.t = "num" -> Returned(Truncate(v.n))
      [] v.t = "bool" -> Returned(BoolInt(v.b))
      [] v.t = "str" /\ ~IsText(v) /\ v.s \in DOMAIN IntOfStr -> Returned(IntOfStr[v.s])
      [] v.t = "str" -> Raised("ValueError")
      [] OTHER -> Raised("TypeError")

\* EnhancedDataExtractor._analyze_single_chunk.  chunk[:2000] (line 181)
\* raises inside the try when the chunk cannot be sliced, before the
\* provider is called; every exception of the try block falls through to
\* the heuristic.  `calls` counts the calls of llm_provider.extract,
\* `outcome` what it did.
analyze_single_chunk(chunk, index, behaviour) ==
    IF chunk.t \notin {"str", "list"}
    THEN [calls |-> 0, result |-> heuristic_analysis(chunk, index)]
    ELSE
    LET result == OpenAIProvider_extract(chunk, behaviour)
        score == float(Get(result.value, "relevance_score", PyNum(500)))
        prio == int(Get(result.value, "priority", PyNum(3000)))
    IN  [calls |-> 1, outcome |-> result,
         result |->
            IF result.raised THEN heuristic_analysis(chunk, index)
            ELSE IF IsDict(result.value) /\ HasKey(result.value, "content_type")
            THEN IF score.raised \/ prio.raised THEN heuristic_analysis(chunk, index)
                 ELSE Returned(ChunkAnalysis(index,
                        Get(result.value, "content_type", PyStr("general")),
                        score.value,
                        Get(result.value, "contains_specs", PyBool(FALSE)),
                        Get(result.value, "contains_pricing", PyBool(FALSE)),
                        Get(result.value, "contains_review", PyBool(FALSE)),
                        Get(result.value, "key_topics", PyList(<<>>)),
                        prio.value))
            ELSE heuristic_analysis(chunk, index)]

(***************************************************************************)
(* Inputs the specifications draw from.                                    *)
(***************************************************************************)
\* "Bonjour"
TxtGeneral == <<"B", "o", "n", "j", "o", "u", "r">>
\* "prix: 999€, promotion"
TxtPricing == <<"p", "r", "i", "x", ":", " ", "9", "9", "9", "€", ",", " ", "p", "r", "o", "m", "o", "t", "i", "o", "n">>
\* "Mon avis"
TxtReview == <<"M", "o", "n", " ", "a", "v", "i", "s">>
\* "CPU 3 GHz, 8 Go RAM"
TxtSpecs == <<"C", "P", "U", " ", "3", " ", "G", "H", "z", ",", " ", "8", " ", "G", "o", " ", "R", "A", "M">>
\* "ram 8go, 50 mp"
TxtTwoSpecs == <<"r", "a", "m", " ", "8", "g", "o", ",", " ", "5", "0", " ", "m", "p">>
\* "cpu ram mah 99 €"
TxtSpecsPrice == <<"c", "p", "u", " ", "r", "a", "m", " ", "m", "a", "h", " ", "9", "9", " ", "€">>
\* "verdict: tarif"
TxtPriceReview == <<"v", "e", "r", "d", "i", "c", "t", ":", " ", "t", "a", "r", "i", "f">>
\* "notebook"
TxtNotebook == <<"n", "o", "t", "e", "b", "o", "o", "k">>
\* "12 €"
TxtAmount == <<"1", "2", " ", "€">>
\* "cpu ram avis prix" followed by PadLength blanks
PadLength == 200
TxtLong ==
    <<"c", "p", "u", " ", "r", "a", "m", " ", "a", "v", "i", "s", " ", "p", "r", "i", "x">>
    \o [i \in 1..PadLength |-> " "]

AllTexts == {TxtGeneral, TxtPricing, TxtReview, TxtSpecs, TxtTwoSpecs, TxtSpecsPrice,
             TxtPriceReview, TxtNotebook, TxtAmount, TxtLong}
AllChunks == {PyText(c) : c \in AllTexts} \cup {PyNone}
FewChunks == {PyText(TxtPricing), PyText(TxtSpecs), PyNone}

\* {"content_type": "specs", "relevance_score": 0.9, "contains_specs": true, "priority": 1}
RespSpecs ==
    PyDict(("content_type" :> PyStr("specs")) @@ ("relevance_score" :> PyNum(900)) @@
           ("contains_specs" :> PyBool(TRUE)) @@ ("priority" :> PyNum(1000)))
\* {"content_type": "general"}
RespMinimal == PyDict("content_type" :> PyStr("general"))
\* {"content_type": "review", "relevance_score": "0.8", "priority": "2"}
RespStrings ==
    PyDict(("content_type" :> PyStr("review")) @@ ("relevance_score" :> PyStr("0.8")) @@
           ("priority" :> PyStr("2")))
\* {"content_type": "table", "relevance_score": 7.5, "priority": 9}
RespOutOfRange ==
    PyDict(("content_type" :> PyStr("table")) @@ ("relevance_score" :> PyNum(7500)) @@
           ("priority" :> PyNum(9000)))
\* {"content_type": "pricing", "relevance_score": "high"}
RespBadScore ==
    PyDict(("content_type" :> PyStr("pricing")) @@ ("relevance_score" :> PyStr("high")))
\* {"content_type": ["specs", "review"]}
RespListType == PyDict("content_type" :> PyList(<<PyStr("specs"), PyStr("review")>>))
\* {"summary": "ok"}
RespNoType == PyDict("summary" :> PyStr("ok"))
\* ["specs"]
RespNotDict == PyList(<<PyStr("specs")>>)

AllReplies == {RespSpecs, RespMinimal, RespStrings, RespOutOfRange, RespBadScore,
               RespListType, RespNoType, RespNotDict}
AllBehaviours == {NoApiKey, ApiError, BadJson} \cup {Json(v) : v \in AllReplies}
FewBehaviours == {NoApiKey, Json(RespSpecs)}

\* All sequences over S of length 0..n
SeqsUpTo(S, n) == UNION {[1..k -> S] : k \in 0..n}

(***************************************************************************)
(* Pass 1: EnhancedDataExtractor.analyze_chunks_first_pass.                *)
(***************************************************************************)
PoolSize == 4       \* ThreadPoolExecutor(max_workers=4)

NotCalled == [raised |-> FALSE, value |-> PyNone, none |-> TRUE]

Pass2Idle ==
    /\ sorted_analyses = <<>>
    /\ group_order = <<>>
    /\ cursor = <<1, 1>>
    /\ type_results = <<>>
    /\ p2_calls = <<>>
    /\ p2_outcome = <<>>
    /\ extraction_results = <<>>
    /\ aggregated = Returned(PyNone)
    /\ results_after = <<>>
    /\ shared = {}

Pass1Idle ==
    /\ tasks = <<>>
    /\ futures = <<>>
    /\ analyses = <<>>
    /\ completion_order = <<>>
    /\ p1_outcome = <<>>
    /\ p1_calls = <<>>

\* No text is being chunked.
ChunkerIdle ==
    /\ source_text = <<>>
    /\ max_length = 1
    /\ overlap = 0
    /\ look_back = 0
    /\ start = 0
    /\ windows = <<>>
    /\ length_chunks = <<>>
    /\ document = <<>>
    /\ method = "length"
    /\ html_chunks = <<>>

\* No RobotsChecker is in use.
\* No website type is being detected.
DetectIdle ==
    /\ site_url = [scheme |-> "", netloc |-> "", path |-> ""]
    /\ content_sample = <<>>
    /\ website_type = "none"
    /\ matched_by = "none"

\* No PDF is being read.
PdfIdle ==
    /\ pdf_exists = FALSE
    /\ pdf_engines = <<>>
    /\ engines_tried = <<>>
    /\ pdf_text = ""

RobotsIdle ==
    /\ respect_robots = TRUE
    /\ rate_limit = 1
    /\ user_agent = "*"
    /\ parsers = <<>>
    /\ last_request_time = <<>>
    /\ robots_txt = <<>>
    /\ clock = 0
    /\ can_fetch_calls = <<>>
    /\ calls_started = 0
    /\ fetch_results = <<>>
    /\ request_log = <<>>
    /\ policy_reads = <<>>

\* Line 431: the default of the max_workers argument of the entry point.
DefaultWorkers == 4

\* analyze_chunks_first_pass is called.
InitFirstPass ==
    /\ \/ /\ chunks \in SeqsUpTo(FewChunks, MaxChunks)
          /\ llm_provider = FewBehaviours
       \/ /\ chunks \in [1..1 -> AllChunks]
          /\ llm_provider = AllBehaviours
    /\ max_chunks = PyNone
    /\ max_workers = DefaultWorkers
    /\ RobotsIdle
    /\ ChunkerIdle
    /\ DetectIdle
    /\ PdfIdle
    /\ pc = "first_pass"
    /\ Pass1Idle
    /\ Pass2Idle

\* Lines 102-106: every chunk is submitted; the pool runs at most PoolSize
\* tasks at a time, in submission order.
Submit ==
    /\ pc = "first_pass"
    /\ pc' = "collecting"
    /\ tasks' = [k \in 1..Len(chunks) |-> IF k <= PoolSize THEN "running" ELSE "queued"]
    /\ futures' = [k \in 1..Len(chunks) |-> Returned(PyNone)]
    /\ p1_outcome' = [k \in 1..Len(chunks) |-> NotCalled]
    /\ p1_calls' = [k \in 1..Len(chunks) |-> 0]
    /\ analyses' = <<>>
    /\ completion_order' = <<>>
    /\ UNCHANGED <<detectVars, pdfVars, chunkerVars, robotsVars, inputVars, pass2Vars>>

Queued == {k \in DOMAIN tasks : tasks[k] = "queued"}
NextQueued == CHOOSE k \in Queued : \A j \in Queued : k <= j

\* A worker thread runs _analyze_single_chunk for chunk k (chunk_index k-1)
\* to its end, stores the outcome in the future and takes the next queued
\* task.
TaskRun(k, behaviour) ==
    /\ pc = "collecting"
    /\ tasks[k] = "running"
    /\ LET r == analyze_single_chunk(chunks[k], k - 1, behaviour)
       IN  /\ futures' = [futures EXCEPT ![k] = r.result]
           /\ p1_calls' = [p1_calls EXCEPT ![k] = @ + r.calls]
           /\ p1_outcome' = [p1_outcome EXCEPT ![k] = IF r.calls > 0 THEN r.outcome ELSE @]
    /\ tasks' = [j \in DOMAIN tasks |->
                    IF j = k THEN "finished"
                    ELSE IF Queued # {} /\ j = NextQueued THEN "running"
                    ELSE tasks[j]]
    /\ UNCHANGED <<detectVars, pdfVars, chunkerVars, robotsVars, inputVars, pc, analyses, completion_order, pass2Vars>>

\* Lines 117-126: the analysis that replaces a failed task.
default_analysis(chunk_index) ==
    ChunkAnalysis(chunk_index, PyStr("unknown"), 500, PyBool(FALSE), PyBool(FALSE),
                  PyBool(FALSE), PyList(<<>>), 3)

\* A plausible slip in lines 110-127: one failure flag shared by all the
\* futures, so that one failed task replaces its siblings' analyses too.
collect_result_shared_failure(k) ==
    IF \E j \in DOMAIN futures : futures[j].raised THEN default_analysis(k - 1)
    ELSE [futures[k].value EXCEPT !.chunk_index = k - 1]

\* Lines 108-127, one iteration of the as_completed loop: the coordinator
\* receives a finished future and appends its analysis, or the default
\* analysis when future.result() raises.
collect_result(k) ==
    IF futures[k].raised THEN default_analysis(k - 1)
    ELSE [futures[k].value EXCEPT !.chunk_index = k - 1]

Collect(k) ==
    /\ pc = "collecting"
    /\ tasks[k] = "finished"
    /\ tasks' = [tasks EXCEPT ![k] = "collected"]
    /\ analyses' = Append(analyses, collect_result(k))
    /\ completion_order' = Append(completion_order, k - 1)
    /\ UNCHANGED <<detectVars, pdfVars, chunkerVars, robotsVars, inputVars, pc, futures, p1_outcome, p1_calls, pass2Vars>>

\* Insertion of x into a list sorted by chunk_index.
RECURSIVE InsertByIndex(_, _)
InsertByIndex(s, x) ==
    IF s = <<>> THEN <<x>>
    ELSE IF x.chunk_index < Head(s).chunk_index THEN <<x>> \o s
    ELSE <<Head(s)>> \o InsertByIndex(Tail(s), x)

\* A plausible slip in line 130: the list is returned in completion order.
keep_completion_order(s) == s

RECURSIVE sort_by_chunk_index(_)
\* analyses.sort(key=lambda x: x.chunk_index)
sort_by_chunk_index(s) ==
    IF s = <<>> THEN <<>>
    ELSE InsertByIndex(sort_by_chunk_index(SubSeq(s, 1, Len(s) - 1)), s[Len(s)])

\* Lines 129-132: every future has been collected; the list is sorted by
\* chunk_index and returned.
FirstPassReturn ==
    /\ pc = "collecting"
    /\ \A k \in DOMAIN tasks : tasks[k] = "collected"
    /\ analyses' = sort_by_chunk_index(analyses)
    /\ pc' = "first_pass_done"
    /\ UNCHANGED <<detectVars, pdfVars, chunkerVars, robotsVars, inputVars, tasks, futures, completion_order, p1_outcome, p1_calls, pass2Vars>>

NextFirstPass ==
    \/ Submit
    \/ \E k \in DOMAIN tasks : \E behaviour \in llm_provider : TaskRun(k, behaviour)
    \/ \E k \in DOMAIN tasks : Collect(k)
    \/ FirstPassReturn

SpecFirstPass == InitFirstPass /\ [][NextFirstPass]_vars

(***************************************************************************)
(* Aggregation: EnhancedDataExtractor._aggregate_extraction_results.       *)
(***************************************************************************)
\* Characters of the strings held as one atom that the model iterates.
CharsOf == ("ok" :> <<"o", "k">>)

\* for x in v: the elements, or TypeError when v is not iterable
Iterate(v) ==
    CASE v.t = "list" -> Returned(v.l)
      [] IsText(v) -> Returned([i \in DOMAIN v.chars |-> PyStr(v.chars[i])])
      [] v.t = "str" -> Returned([i \in DOMAIN CharsOf[v.s] |-> PyStr(CharsOf[v.s][i])])
      [] v.t = "dict" ->
            LET RECURSIVE Keys(_)
                Keys(K) == IF K = {} THEN <<>>
                           ELSE LET k == CHOOSE x \in K : TRUE
                                IN  <<PyStr(k)>> \o Keys(K \ {k})
            IN  Returned(Keys(DOMAIN v.d))
      [] OTHER -> Raised("TypeError")

\* bool(v)
Truthy(v) ==
    CASE v.t = "none" -> FALSE
      [] v.t = "bool" -> v.b
      [] v.t \in {"num", "int"} -> v.n # 0
      [] IsText(v) -> v.chars # <<>>
      [] v.t = "str" -> v.s # ""
      [] v.t = "list" -> v.l # <<>>
      [] OTHER -> DOMAIN v.d # {}

\* d1.update(d2) on the mappings of two dicts
Update(d1, d2) == d2 @@ d1

\* Lines 367-371 for one result: the specs mapping after the result's items.
merge_specs_result(specs, result) ==
    [key \in DOMAIN specs \cup DOMAIN result.d |->
        IF key \notin DOMAIN specs THEN result.d[key]
        ELSE IF key \notin DOMAIN result.d THEN specs[key]
        ELSE IF IsDict(result.d[key]) /\ IsDict(specs[key])
             THEN PyDict(Update(specs[key].d, result.d[key].d))
        ELSE specs[key]]

RECURSIVE aggregate_specs(_)
\* Lines 365-371: the specs mapping after all the results of the list.
aggregate_specs(results) ==
    IF results = <<>> THEN <<>>
    ELSE merge_specs_result(aggregate_specs(SubSeq(results, 1, Len(results) - 1)),
                            results[Len(results)])

\* The concatenation of the lists results[i][key], for the results holding
\* key: list.extend on each, or TypeError.
RECURSIVE extend_all(_, _)
extend_all(results, key) ==
    IF results = <<>> THEN Returned(<<>>)
    ELSE LET before == extend_all(SubSeq(results, 1, Len(results) - 1), key)
             result == results[Len(results)]
             items == Iterate(result.d[key])
         IN  IF before.raised THEN before
             ELSE IF ~HasKey(result, key) THEN before
             ELSE IF items.raised THEN items
             ELSE Returned(before.value \o items.value)

\* [result[key] for result in results if key in result]
RECURSIVE append_all(_, _)
append_all(results, key) ==
    IF results = <<>> THEN <<>>
    ELSE LET before == append_all(SubSeq(results, 1, Len(results) - 1), key)
             result == results[Len(results)]
         IN  IF HasKey(result, key) THEN Append(before, result.d[key]) ELSE before

\* All the orders in which the elements of a set can be listed.
Orderings(S) == {o \in [1..Cardinality(S) -> S] : Range(o) = S}

\* " ".join(parts): a single part is that part; several parts are held as
\* the sequence of the parts.  TypeError when a part is not a str.
Join(parts) ==
    IF \E i \in DOMAIN parts : parts[i].t # "str" THEN Raised("TypeError")
    ELSE IF Len(parts) = 1 THEN Returned(parts[1])
    ELSE Returned([t |-> "str", joined |-> parts])

\* Lines 375-396.  list(set(xs)) lists the distinct values in an order the
\* interpreter picks: forts and faibles are the orders picked.
aggregate_review(results, forts, faibles) ==
    LET points_forts == extend_all(results, "points_forts")
        points_faibles == extend_all(results, "points_faibles")
        notes == append_all(results, "note_globale")
        verdicts == append_all(results, "verdict")
        verdict == Join(verdicts)
    IN  IF points_forts.raised THEN points_forts
        ELSE IF points_faibles.raised THEN points_faibles
        ELSE IF \E x \in Range(points_forts.value) \cup Range(points_faibles.value) :
                    ~Hashable(x)
             THEN Raised("TypeError")
        ELSE IF verdicts # <<>> /\ verdict.raised THEN verdict
        ELSE Returned(
                ("points_forts" :> PyList(forts)) @@
                ("points_faibles" :> PyList(faibles)) @@
                ("note_globale" :> (IF notes # <<>> THEN notes[1] ELSE PyNone)) @@
                ("verdict" :> (IF verdicts # <<>> THEN verdict.value ELSE PyNone)))

\* A plausible slip in lines 392-393: list(...) without set(...), so the
\* concatenated list is kept with its duplicates.
SetOrders_keep_duplicates(results, key) ==
    LET xs == extend_all(results, key)
    IN  IF xs.raised THEN {<<>>} ELSE {xs.value}

\* The orders list(set(...)) can pick for the key of the review results.
SetOrders(results, key) ==
    LET xs == extend_all(results, key)
    IN  IF xs.raised \/ \E x \in Range(xs.value) : ~Hashable(x) THEN {<<>>}
        ELSE Orderings(Range(xs.value))

\* A plausible slip in line 402: the test `and result["prix_principal"]`
\* left out, so that every prix_principal present is listed.
aggregate_pricing_every_price(results) ==
    LET promotions == extend_all(results, "promotions")
    IN  IF promotions.raised THEN promotions
        ELSE Returned(PyDict(("prix" :> PyList(append_all(results, "prix_principal"))) @@
                             ("promotions" :> PyList(promotions.value))))

\* Lines 399-406
aggregate_pricing(results) ==
    LET RECURSIVE Prix(_)
        Prix(rs) ==
            IF rs = <<>> THEN <<>>
            ELSE LET r == rs[Len(rs)]
                     before == Prix(SubSeq(rs, 1, Len(rs) - 1))
                 IN  IF HasKey(r, "prix_principal") /\ Truthy(r.d["prix_principal"])
                     THEN Append(before, r.d["prix_principal"])
                     ELSE before
        promotions == extend_all(results, "promotions")
    IN  IF promotions.raised THEN promotions
        ELSE Returned(PyDict(("prix" :> PyList(Prix(results))) @@
                             ("promotions" :> PyList(promotions.value))))

\* Lines 409-414
aggregate_products(results) ==
    LET produits == extend_all(results, "produits")
    IN  IF produits.raised THEN produits ELSE Returned(PyList(produits.value))

RECURSIVE aggregate_general(_)
\* Lines 418-420
aggregate_general(results) ==
    IF results = <<>> THEN <<>>
    ELSE Update(aggregate_general(SubSeq(results, 1, Len(results) - 1)),
                results[Len(results)].d)

KeySpecs == PyStr("specs")
KeyReview == PyStr("review")
KeyPricing == PyStr("pricing")
KeyProducts == PyStr("product_list")
KeyGeneral == PyStr("general")

\* EnhancedDataExtractor._aggregate_extraction_results: the returned dict,
\* or the exception raised.  results maps a content type to its list of
\* dicts; forts and faibles are the orders list(set(...)) picks.
aggregate_extraction_results(results, forts, faibles) ==
    LET has(k) == k \in DOMAIN results
        specs == IF has(KeySpecs)
                 THEN "caracteristiques_techniques" :> PyDict(aggregate_specs(results[KeySpecs]))
                 ELSE <<>>
        review == IF has(KeyReview)
                  THEN aggregate_review(results[KeyReview], forts, faibles)
                  ELSE Returned(<<>>)
        pricing == IF has(KeyPricing) THEN aggregate_pricing(results[KeyPricing])
                   ELSE Returned(PyNone)
        products == IF has(KeyProducts) THEN aggregate_products(results[KeyProducts])
                    ELSE Returned(PyNone)
        general_info == IF has(KeyGeneral) THEN aggregate_general(results[KeyGeneral])
                        ELSE <<>>
    IN  IF review.raised THEN review
        ELSE IF pricing.raised THEN pricing
        ELSE IF products.raised THEN products
        ELSE Returned(PyDict(
                specs @@ review.value @@
                (IF has(KeyPricing) THEN "prix_et_disponibilite" :> pricing.value ELSE <<>>) @@
                (IF has(KeyProducts) THEN "produits" :> products.value ELSE <<>>) @@
                (IF DOMAIN general_info # {}
                 THEN "informations_generales" :> PyDict(general_info) ELSE <<>>)))

\* A list or a dict: a value that can be changed in place.
IsMutable(v) == v.t \in {"list", "dict"}

\* Lines 366-369: the result whose value object is bound to specs[key], the
\* first result of the list that holds key.
first_holder(results, key) ==
    CHOOSE i \in DOMAIN results :
        HasKey(results[i], key) /\ \A j \in 1..(i - 1) : ~HasKey(results[j], key)

\* Lines 366-371 seen from the results of the specs group: specs[key] is the
\* value object of the first holder of key (line 369), and line 371 updates
\* that object in place.
specs_results_after(results) ==
    [i \in DOMAIN results |->
        PyDict([key \in DOMAIN results[i].d |->
                    IF i = first_holder(results, key) THEN aggregate_specs(results)[key]
                    ELSE results[i].d[key]])]

\* The extraction results after _aggregate_extraction_results: only the
\* specs branch writes into an object of its input.
extraction_results_after(results) ==
    [ctype \in DOMAIN results |->
        IF ctype = KeySpecs THEN specs_results_after(results[ctype]) ELSE results[ctype]]

\* Some element of the iterable v is a list or a dict.
HoldsMutable(v) ==
    LET xs == Iterate(v)
    IN  ~xs.raised /\ \E x \in Range(xs.value) : IsMutable(x)

\* The <<type, result number, key>> of the lists and dicts of the results
\* that the returned mapping holds as well: specs[key] = value (line 369),
\* notes[0] (line 394), prix.append (line 403), the elements list.extend
\* copies (lines 405, 413) and general_info.update(result) (line 420).
shared_values(results) ==
    LET is_shared(ctype, i, key) ==
            LET value == results[ctype][i].d[key]
            IN  CASE ctype = KeySpecs ->
                        i = first_holder(results[ctype], key) /\ IsMutable(value)
                  [] ctype = KeyReview ->
                        /\ key = "note_globale"
                        /\ i = first_holder(results[ctype], key)
                        /\ IsMutable(value)
                  [] ctype = KeyPricing ->
                        \/ key = "prix_principal" /\ Truthy(value) /\ IsMutable(value)
                        \/ key = "promotions" /\ HoldsMutable(value)
                  [] ctype = KeyProducts -> key = "produits" /\ HoldsMutable(value)
                  [] ctype = KeyGeneral ->
                        /\ IsMutable(value)
                        /\ \A j \in DOMAIN results[ctype] :
                                j > i => ~HasKey(results[ctype][j], key)
                  [] OTHER -> FALSE
    IN  UNION {UNION {{<<ctype, i, key>> :
                            key \in {k \in DOMAIN results[ctype][i].d : is_shared(ctype, i, k)}} :
                      i \in DOMAIN results[ctype]} :
               ctype \in DOMAIN results}

(***************************************************************************)
(* Pass 2: EnhancedDataExtractor.extract_from_prioritized_chunks.          *)
(***************************************************************************)
\* The sort key (x.priority, -x.relevance_score) of a is at most that of b.
KeyAtMost(a, b) ==
    \/ a.priority < b.priority
    \/ a.priority = b.priority /\ a.relevance_score >= b.relevance_score

\* Insertion of x behind every element whose key is at most its own.
RECURSIVE InsertByKey(_, _)
InsertByKey(s, x) ==
    IF s = <<>> THEN <<x>>
    ELSE IF KeyAtMost(Head(s), x) THEN <<Head(s)>> \o InsertByKey(Tail(s), x)
    ELSE <<x>> \o s

\* A plausible slip in line 259: the analyses are taken in document order.
sort_by_priority_document_order(s) == s

RECURSIVE sort_by_priority(_)
\* Line 259: sorted(analyses, key=lambda x: (x.priority, -x.relevance_score)),
\* a stable sort.
sort_by_priority(s) ==
    IF s = <<>> THEN <<>>
    ELSE InsertByKey(sort_by_priority(SubSeq(s, 1, Len(s) - 1)), s[Len(s)])

\* s[:n]
SliceTo(s, n) ==
    IF n >= 0 THEN SubSeq(s, 1, Min(n, Len(s)))
    ELSE SubSeq(s, 1, IF Len(s) + n > 0 THEN Len(s) + n ELSE 0)

\* Lines 259-262: the analyses pass 2 works on.
prioritize(list, cap) ==
    IF Truthy(cap) THEN SliceTo(sort_by_priority(list), cap.n)
    ELSE sort_by_priority(list)

\* Lines 270-275: the keys of chunks_by_type in insertion order.
RECURSIVE group_keys(_)
group_keys(list) ==
    IF list = <<>> THEN <<>>
    ELSE LET before == group_keys(SubSeq(list, 1, Len(list) - 1))
             ctype == list[Len(list)].content_type
         IN  IF ctype \in Range(before) THEN before ELSE Append(before, ctype)

\* chunks_by_type[ctype]: the analyses of the group, in the order of list.
chunk_list(list, ctype) == SelectSeq(list, LAMBDA a : a.content_type = ctype)

\* Lines 259-275.  Using an unhashable content_type as a dict key raises
\* TypeError out of the method.
Prioritize ==
    /\ pc \in {"first_pass_done", "second_pass"}
    /\ LET list == prioritize(analyses, max_chunks)
       IN  IF \E i \in DOMAIN list : ~Hashable(list[i].content_type)
           THEN /\ pc' = "raised"
                /\ aggregated' = Raised("TypeError")
                /\ UNCHANGED <<sorted_analyses, group_order>>
           ELSE /\ pc' = "extracting"
                /\ sorted_analyses' = list
                /\ group_order' = group_keys(list)
                /\ UNCHANGED aggregated
    /\ cursor' = <<1, 1>>
    /\ type_results' = <<>>
    /\ extraction_results' = <<>>
    /\ UNCHANGED <<detectVars, pdfVars, chunkerVars, robotsVars, inputVars, pass1Vars, p2_calls, p2_outcome,
                   results_after, shared>>

CurrentGroup == chunk_list(sorted_analyses, group_order[cursor[1]])

\* A plausible slip in lines 285-290: the except clause starts the group's
\* list again, losing what the earlier chunks gave.
extract_step_reset_on_failure(results, outcome) ==
    IF outcome.raised THEN <<>>
    ELSE IF IsDict(outcome.value) THEN Append(results, outcome.value)
    ELSE results

\* Lines 284-293, one iteration of the inner loop: one call of
\* llm_provider.extract for the chunk at the cursor; a returned dict is
\* kept, anything else is skipped.  After the last chunk of a group the
\* group's results are stored when there are any.
extract_step(results, outcome) ==
    IF ~outcome.raised /\ IsDict(outcome.value) THEN Append(results, outcome.value)
    ELSE results

ExtractChunk(behaviour) ==
    /\ pc = "extracting"
    /\ cursor[1] <= Len(group_order)
    /\ LET analysis == CurrentGroup[cursor[2]]
           outcome == OpenAIProvider_extract(chunks[analysis.chunk_index + 1], behaviour)
           results == extract_step(type_results, outcome)
           last == cursor[2] = Len(CurrentGroup)
       IN  /\ p2_calls' = Append(p2_calls, [chunk_index |-> analysis.chunk_index,
                                             behaviour |-> behaviour])
           /\ p2_outcome' = Append(p2_outcome, outcome)
           /\ IF last
              THEN /\ cursor' = <<cursor[1] + 1, 1>>
                   /\ type_results' = <<>>
                   /\ extraction_results' =
                        IF results # <<>>
                        THEN (group_order[cursor[1]] :> results) @@ extraction_results
                        ELSE extraction_results
              ELSE /\ cursor' = <<cursor[1], cursor[2] + 1>>
                   /\ type_results' = results
                   /\ UNCHANGED extraction_results
    /\ UNCHANGED <<detectVars, pdfVars, chunkerVars, robotsVars, inputVars, pc, pass1Vars, sorted_analyses, group_order, aggregated,
                   results_after, shared>>

\* Line 296: every group is done; the results are aggregated and returned,
\* or the aggregation raises.
Aggregate ==
    /\ pc \in {"extracting", "aggregate"}
    /\ pc = "extracting" => cursor[1] > Len(group_order)
    /\ \E forts \in (IF KeyReview \in DOMAIN extraction_results
                     THEN SetOrders(extraction_results[KeyReview], "points_forts")
                     ELSE {<<>>}) :
       \E faibles \in (IF KeyReview \in DOMAIN extraction_results
                       THEN SetOrders(extraction_results[KeyReview], "points_faibles")
                       ELSE {<<>>}) :
          aggregated' = aggregate_extraction_results(extraction_results, forts, faibles)
    /\ pc' = IF aggregated'.raised THEN "raised" ELSE "done"
    /\ results_after' = extraction_results_after(extraction_results)
    /\ shared' = IF aggregated'.raised THEN {} ELSE shared_values(extraction_results)
    /\ UNCHANGED <<detectVars, pdfVars, chunkerVars, robotsVars, inputVars, pass1Vars, sorted_analyses, group_order, cursor, type_results,
                   p2_calls, p2_outcome, extraction_results>>

NextSecondPass ==
    \/ Prioritize
    \/ \E behaviour \in llm_provider : ExtractChunk(behaviour)
    \/ Aggregate

\* {"points_forts": ["A"], "verdict": "bon"}
RespReview ==
    PyDict(("points_forts" :> PyList(<<PyStr("A")>>)) @@ ("verdict" :> PyStr("bon")))
\* {"verdict": null}
RespNullVerdict == PyDict("verdict" :> PyNone)

SecondPassChunks == {PyText(TxtPricing), PyText(TxtReview)}
SecondPassBehaviours == {NoApiKey, ApiError, Json(RespNotDict), Json(RespReview)}
SecondPassCaps == {PyNone, PyInt(0), PyInt(2)}

\* The list analyze_chunks_first_pass returns when the provider behaves as
\* behaviours[k] for chunk k.
first_pass_result(list, behaviours) ==
    [k \in DOMAIN list |->
        LET r == analyze_single_chunk(list[k], k - 1, behaviours[k]).result
        IN  IF r.raised THEN default_analysis(k - 1) ELSE r.value]

\* extract_from_prioritized_chunks is called with a list of analyses that
\* pass 1 can return for the chunks.
InitSecondPass ==
    /\ \E n \in 0..MaxChunks :
        \E list \in [1..n -> SecondPassChunks] : \E behaviours \in [1..n -> FewBehaviours] :
            /\ chunks = list
            /\ analyses = first_pass_result(list, behaviours)
    /\ llm_provider = SecondPassBehaviours
    /\ max_chunks \in SecondPassCaps
    /\ max_workers = DefaultWorkers
    /\ RobotsIdle
    /\ ChunkerIdle
    /\ DetectIdle
    /\ PdfIdle
    /\ pc = "second_pass"
    /\ tasks = <<>> /\ futures = <<>> /\ completion_order = <<>>
    /\ p1_outcome = <<>> /\ p1_calls = <<>>
    /\ Pass2Idle

SpecSecondPass == InitSecondPass /\ [][NextSecondPass]_vars

(***************************************************************************)
(* _aggregate_extraction_results called on its own.                        *)
(***************************************************************************)
\* {"os": "A"}
SpecsLeafA == PyDict("os" :> PyStr("A"))
\* {"os": "B"}
SpecsLeafB == PyDict("os" :> PyStr("B"))
\* {"ecran": {"taille": "6.2"}}
SpecsEcranTaille == PyDict("ecran" :> PyDict("taille" :> PyStr("6.2")))
\* {"ecran": {"taille": "6.7", "resolution": "FHD"}}
SpecsEcranBoth ==
    PyDict("ecran" :> PyDict(("taille" :> PyStr("6.7")) @@ ("resolution" :> PyStr("FHD"))))
\* {"autres": {"reseau": {"wifi": "6E"}}}
SpecsDeepWifi == PyDict("autres" :> PyDict("reseau" :> PyDict("wifi" :> PyStr("6E"))))
\* {"autres": {"reseau": {"bluetooth": "5.3"}}}
SpecsDeepBluetooth ==
    PyDict("autres" :> PyDict("reseau" :> PyDict("bluetooth" :> PyStr("5.3"))))

SpecsSamples == {SpecsLeafA, SpecsLeafB, SpecsEcranTaille, SpecsEcranBoth,
                 SpecsDeepWifi, SpecsDeepBluetooth}

InitAggregate ==
    /\ \E n \in 1..MaxResults : \E results \in [1..n -> SpecsSamples] :
            extraction_results = (KeySpecs :> results)
    /\ chunks = <<>>
    /\ llm_provider = {}
    /\ max_chunks = PyNone
    /\ max_workers = DefaultWorkers
    /\ RobotsIdle
    /\ ChunkerIdle
    /\ DetectIdle
    /\ PdfIdle
    /\ pc = "aggregate"
    /\ Pass1Idle
    /\ sorted_analyses = <<>> /\ group_order = <<>> /\ cursor = <<1, 1>>
    /\ type_results = <<>> /\ p2_calls = <<>> /\ p2_outcome = <<>>
    /\ aggregated = Returned(PyNone)
    /\ results_after = <<>> /\ shared = {}

NextAggregate == Aggregate

SpecAggregate == InitAggregate /\ [][NextAggregate]_vars

(***************************************************************************)
(* _aggregate_extraction_results called with the results of one content    *)
(* type: review, pricing, product_list, general or unknown.                *)
(***************************************************************************)
\* {"points_forts": ["A"]}
RevA == PyDict("points_forts" :> PyList(<<PyStr("A")>>))
\* {"points_forts": ["A", "B"], "points_faibles": ["C"]}
RevAB ==
    PyDict(("points_forts" :> PyList(<<PyStr("A"), PyStr("B")>>)) @@
           ("points_faibles" :> PyList(<<PyStr("C")>>)))
\* {"note_globale": 8, "verdict": "moyen"}
RevNote == PyDict(("note_globale" :> PyNum(8000)) @@ ("verdict" :> PyStr("moyen")))
\* {"note_globale": null, "points_faibles": ["C"]}
RevNullNote ==
    PyDict(("note_globale" :> PyNone) @@ ("points_faibles" :> PyList(<<PyStr("C")>>)))
\* {"points_forts": "ok"}
RevTextPoints == PyDict("points_forts" :> PyStr("ok"))

ReviewSamples == {RevA, RevAB, RespReview, RevNote, RevNullNote, RespNullVerdict,
                  RevTextPoints}

\* {"prix_principal": "999€", "promotions": ["-10%"]}
PrixPromo ==
    PyDict(("prix_principal" :> PyStr("999€")) @@ ("promotions" :> PyList(<<PyStr("-10%")>>)))
\* {"prix_principal": null, "promotions": ["soldes"]}
PrixNull ==
    PyDict(("prix_principal" :> PyNone) @@ ("promotions" :> PyList(<<PyStr("soldes")>>)))
\* {"prix_principal": 0, "promotions": []}
PrixZero == PyDict(("prix_principal" :> PyNum(0)) @@ ("promotions" :> PyList(<<>>)))
\* {"prix_principal": "899€"}
PrixOnly == PyDict("prix_principal" :> PyStr("899€"))
\* {"promotions": null}
PrixNullPromo == PyDict("promotions" :> PyNone)

PricingSamples == {PrixPromo, PrixNull, PrixZero, PrixOnly, PrixNullPromo}

\* {"produits": ["P1"]}
ProdList == PyDict("produits" :> PyList(<<PyStr("P1")>>))
\* {"produits": 5}
ProdNumber == PyDict("produits" :> PyNum(5000))

ProductSamples == {ProdList, ProdNumber}

\* {"titre": "X"}
GenTitre == PyDict("titre" :> PyStr("X"))
\* {"titre": "Y", "auteur": "Z"}
GenTitreAuteur == PyDict(("titre" :> PyStr("Y")) @@ ("auteur" :> PyStr("Z")))

GeneralSamples == {GenTitre, GenTitreAuteur}

\* The content type pass 1 gives a chunk whose task failed (line 120).
KeyUnknown == PyStr("unknown")

TypedSamples ==
    (KeyReview :> ReviewSamples) @@ (KeyPricing :> PricingSamples) @@
    (KeyProducts :> ProductSamples) @@ (KeyGeneral :> GeneralSamples) @@
    (KeyUnknown :> GeneralSamples)

InitAggregateTyped ==
    /\ \E ctype \in DOMAIN TypedSamples : \E n \in 1..MaxResults :
        \E results \in [1..n -> TypedSamples[ctype]] :
            extraction_results = (ctype :> results)
    /\ chunks = <<>>
    /\ llm_provider = {}
    /\ max_chunks = PyNone
    /\ max_workers = DefaultWorkers
    /\ RobotsIdle
    /\ ChunkerIdle
    /\ DetectIdle
    /\ PdfIdle
    /\ pc = "aggregate"
    /\ Pass1Idle
    /\ sorted_analyses = <<>> /\ group_order = <<>> /\ cursor = <<1, 1>>
    /\ type_results = <<>> /\ p2_calls = <<>> /\ p2_outcome = <<>>
    /\ aggregated = Returned(PyNone)
    /\ results_after = <<>> /\ shared = {}

SpecAggregateTyped == InitAggregateTyped /\ [][NextAggregate]_vars

(***************************************************************************)
(* The whole pipeline: enhanced_extract_data_from_chunks.                  *)
(***************************************************************************)
PipelineChunks == {PyText(TxtReview), PyText(TxtSpecs)}
PipelineBehaviours == {NoApiKey, Json(RespListType), Json(RespNullVerdict), Json(RespReview)}
\* max_chunks_per_type: the default, and no chunk at all
DefaultPerType == 5
PerTypeCaps == {0, DefaultPerType}
\* max_workers: one worker, and the default
ConfiguredWorkers == {1, DefaultWorkers}

Init ==
    /\ chunks \in SeqsUpTo(PipelineChunks, MaxPipelineChunks)
    /\ llm_provider = PipelineBehaviours
    /\ max_chunks \in {PyInt(m * 4) : m \in PerTypeCaps}
    /\ max_workers \in ConfiguredWorkers
    /\ RobotsIdle
    /\ ChunkerIdle
    /\ DetectIdle
    /\ PdfIdle
    /\ pc = "enhanced_extract"
    /\ Pass1Idle
    /\ Pass2Idle

\* Lines 437-446: " ".join(chunks[:3]) raises TypeError when one of the
\* first three chunks is not a str; otherwise pass 1 is entered.
EnhancedEntry ==
    /\ pc = "enhanced_extract"
    /\ IF \E k \in 1..Min(3, Len(chunks)) : chunks[k].t # "str"
       THEN pc' = "raised" /\ aggregated' = Raised("TypeError")
       ELSE pc' = "first_pass" /\ UNCHANGED aggregated
    /\ UNCHANGED <<detectVars, pdfVars, chunkerVars, robotsVars, inputVars, pass1Vars, sorted_analyses, group_order, cursor, type_results,
                   p2_calls, p2_outcome, extraction_results, results_after, shared>>

Next ==
    \/ EnhancedEntry
    \/ Submit
    \/ \E k \in DOMAIN tasks : \E behaviour \in llm_provider : TaskRun(k, behaviour)
    \/ \E k \in DOMAIN tasks : Collect(k)
    \/ FirstPassReturn
    \/ Prioritize
    \/ \E behaviour \in llm_provider : ExtractChunk(behaviour)
    \/ Aggregate

Spec == Init /\ [][Next]_vars

(***************************************************************************)
(* Domain rate limiter: RobotsChecker.can_fetch                            *)
(* (src/scrapers/robots_checker.py, described in section 4.4 of the        *)
(* specification and exercised by src/tests/test_robots_checker.py).       *)
(* Times are whole seconds.                                                *)
(***************************************************************************)
Domains == {"https://a.example", "https://b.example"}

\* The URLs can_fetch is called with: <<domain, path>>.
Urls == {<<"https://a.example", "/page">>, <<"https://a.example", "/private">>,
         <<"https://b.example", "/page">>}

\* robots.txt with `Crawl-delay: 3`, `Disallow: /private` for every agent
\* but MyBot, which has a group of its own that disallows nothing
PolicyCrawlDelay == [reachable |-> TRUE, error |-> "", crawl_delay |-> 3,
                     disallow |-> ("*" :> {"/private"}) @@ ("MyBot" :> {})]
\* robots.txt with no Crawl-delay line (crawl_delay() is None, counted as 0)
PolicyNoDelay == [reachable |-> TRUE, error |-> "", crawl_delay |-> 0,
                  disallow |-> ("*" :> {}) @@ ("MyBot" :> {})]
\* the retrieval of robots.txt raises Exception("Test exception")
PolicyUnreachable == [reachable |-> FALSE, error |-> "Test exception", crawl_delay |-> 0,
                      disallow |-> ("*" :> {}) @@ ("MyBot" :> {})]

IdleCall == [pc |-> "idle", domain |-> "", path |-> "", delay |-> 0, wake |-> 0,
             slept |-> FALSE]

\* RobotsChecker(respect_robots, rate_limit) was built, and `threads`
\* threads share it.
InitChecker(threads) ==
    /\ respect_robots \in BOOLEAN
    /\ rate_limit \in {1, 2}
    /\ user_agent \in {"*", "MyBot"}
    /\ parsers = <<>>
    /\ last_request_time = <<>>
    /\ robots_txt \in {("https://a.example" :> PolicyCrawlDelay) @@ ("https://b.example" :> pb) :
                        pb \in {PolicyNoDelay, PolicyUnreachable,
                                [PolicyUnreachable EXCEPT !.error = "timed out"]}}
    /\ clock = 0
    /\ can_fetch_calls = [t \in 1..threads |-> IdleCall]
    /\ calls_started = 0
    /\ fetch_results = <<>>
    /\ request_log = <<>>
    /\ policy_reads = <<>>
    /\ chunks = <<>>
    /\ llm_provider = {}
    /\ max_chunks = PyNone
    /\ max_workers = DefaultWorkers
    /\ pc = "robots"
    /\ Pass1Idle
    /\ Pass2Idle
    /\ ChunkerIdle
    /\ DetectIdle
    /\ PdfIdle

pipelineVars == <<inputVars, pc, pass1Vars, pass2Vars>>

\* What a can_fetch call returns, (allowed, reason), with whether it called
\* time.sleep on the way and for how many seconds.
FetchResult(call, allowed, reason) ==
    [domain |-> call.domain, path |-> call.path, allowed |-> allowed, reason |-> reason,
     slept |-> call.slept, sleep |-> IF call.slept THEN call.delay ELSE 0]

\* (a) can_fetch(url) is entered; with policy checking disabled it allows
\* at once.
CanFetchBegin(t, url) ==
    /\ pc = "robots"
    /\ can_fetch_calls[t].pc = "idle"
    /\ calls_started < MaxCalls
    /\ calls_started' = calls_started + 1
    /\ LET call == [IdleCall EXCEPT !.domain = url[1], !.path = url[2]]
       IN  IF ~respect_robots
           THEN /\ fetch_results' = Append(fetch_results, FetchResult(call, TRUE, "None"))
                /\ UNCHANGED can_fetch_calls
           ELSE /\ can_fetch_calls' = [can_fetch_calls EXCEPT ![t] = [call EXCEPT !.pc = "lookup"]]
                /\ UNCHANGED fetch_results
    /\ UNCHANGED <<detectVars, pdfVars, chunkerVars, pipelineVars, respect_robots, rate_limit, user_agent, parsers, last_request_time,
                   robots_txt, clock, request_log, policy_reads>>

\* A plausible slip in (b): the cache is not consulted and the policy is
\* retrieved at every call.
PolicyLookup_always_fetch(t) ==
    /\ can_fetch_calls[t].pc = "lookup"
    /\ can_fetch_calls' = [can_fetch_calls EXCEPT ![t].pc = "fetching"]
    /\ UNCHANGED <<detectVars, pdfVars, chunkerVars, pipelineVars, respect_robots, rate_limit, user_agent, parsers, last_request_time,
                   robots_txt, clock, calls_started, fetch_results, request_log, policy_reads>>

\* (b) the parser of the domain is looked up in the cache.
PolicyLookup(t) ==
    /\ can_fetch_calls[t].pc = "lookup"
    /\ can_fetch_calls' = [can_fetch_calls EXCEPT ![t].pc =
            IF can_fetch_calls[t].domain \in DOMAIN parsers THEN "check" ELSE "fetching"]
    /\ UNCHANGED <<detectVars, pdfVars, chunkerVars, pipelineVars, respect_robots, rate_limit, user_agent, parsers, last_request_time,
                   robots_txt, clock, calls_started, fetch_results, request_log, policy_reads>>

\* A plausible slip in the except branch: it returns without the rate limit
\* sleep.
PolicyFetch_error_without_sleep(t) ==
    /\ can_fetch_calls[t].pc = "fetching"
    /\ LET d == can_fetch_calls[t].domain
       IN  /\ policy_reads' = Append(policy_reads, [domain |-> d, ok |-> robots_txt[d].reachable])
           /\ IF robots_txt[d].reachable
              THEN /\ parsers' = (d :> robots_txt[d]) @@ parsers
                   /\ can_fetch_calls' = [can_fetch_calls EXCEPT ![t].pc = "check"]
              ELSE /\ UNCHANGED parsers
                   /\ can_fetch_calls' = [can_fetch_calls EXCEPT ![t].pc = "error_sleep",
                                                                  ![t].wake = clock]
    /\ UNCHANGED <<detectVars, pdfVars, chunkerVars, pipelineVars, respect_robots, rate_limit, user_agent, last_request_time, robots_txt,
                   clock, calls_started, fetch_results, request_log>>

\* (b) the policy document is retrieved and parsed, and the parser cached;
\* an exception leaves the cache as it is and goes to the fail-open exit,
\* which sleeps for the configured rate limit.
PolicyFetch(t) ==
    /\ can_fetch_calls[t].pc = "fetching"
    /\ LET d == can_fetch_calls[t].domain
       IN  /\ policy_reads' = Append(policy_reads, [domain |-> d, ok |-> robots_txt[d].reachable])
           /\ IF robots_txt[d].reachable
              THEN /\ parsers' = (d :> robots_txt[d]) @@ parsers
                   /\ can_fetch_calls' = [can_fetch_calls EXCEPT ![t].pc = "check"]
              ELSE /\ UNCHANGED parsers
                   /\ can_fetch_calls' = [can_fetch_calls EXCEPT ![t].pc = "error_sleep",
                                                                  ![t].delay = rate_limit,
                                                                  ![t].wake = clock + rate_limit,
                                                                  ![t].slept = TRUE]
    /\ UNCHANGED <<detectVars, pdfVars, chunkerVars, pipelineVars, respect_robots, rate_limit, user_agent, last_request_time, robots_txt,
                   clock, calls_started, fetch_results, request_log>>

\* A plausible slip in (d): the declared crawl delay is not taken into
\* account.
required_spacing_rate_limit_only(parser, limit) == limit

\* (d) the required spacing: max(declared_crawl_delay, configured_rate_limit)
required_spacing(parser, limit) ==
    IF parser.crawl_delay >= limit THEN parser.crawl_delay ELSE limit

\* A plausible slip in (c): the policy is asked about the default agent "*"
\* instead of the configured one.
PolicyCheck_default_agent(t) ==
    /\ can_fetch_calls[t].pc = "check"
    /\ LET call == can_fetch_calls[t]
           parser == parsers[call.domain]
           delay == required_spacing(parser, rate_limit)
       IN  IF call.path \in parser.disallow["*"]
           THEN /\ fetch_results' =
                        Append(fetch_results, FetchResult(call, FALSE, "Interdit par robots.txt"))
                /\ can_fetch_calls' = [can_fetch_calls EXCEPT ![t] = IdleCall]
           ELSE /\ UNCHANGED fetch_results
                /\ can_fetch_calls' = [can_fetch_calls EXCEPT ![t] =
                        IF call.domain \in DOMAIN last_request_time
                        THEN [call EXCEPT !.pc = "sleeping", !.delay = delay,
                                          !.wake = clock + delay, !.slept = TRUE]
                        ELSE [call EXCEPT !.pc = "record", !.delay = delay]]
    /\ UNCHANGED <<detectVars, pdfVars, chunkerVars, pipelineVars, respect_robots, rate_limit, user_agent, parsers, last_request_time,
                   robots_txt, clock, calls_started, request_log, policy_reads>>

\* (c) a disallowed path is denied with its reason; (d) otherwise the
\* spacing is computed and, when the domain has a last_request_time, the
\* call goes to sleep for it.
PolicyCheck(t) ==
    /\ can_fetch_calls[t].pc = "check"
    /\ LET call == can_fetch_calls[t]
           parser == parsers[call.domain]
           delay == required_spacing(parser, rate_limit)
       IN  IF call.path \in parser.disallow[user_agent]
           THEN /\ fetch_results' =
                        Append(fetch_results, FetchResult(call, FALSE, "Interdit par robots.txt"))
                /\ can_fetch_calls' = [can_fetch_calls EXCEPT ![t] = IdleCall]
           ELSE /\ UNCHANGED fetch_results
                /\ can_fetch_calls' = [can_fetch_calls EXCEPT ![t] =
                        IF call.domain \in DOMAIN last_request_time
                        THEN [call EXCEPT !.pc = "sleeping", !.delay = delay,
                                          !.wake = clock + delay, !.slept = TRUE]
                        ELSE [call EXCEPT !.pc = "record", !.delay = delay]]
    /\ UNCHANGED <<detectVars, pdfVars, chunkerVars, pipelineVars, respect_robots, rate_limit, user_agent, parsers, last_request_time,
                   robots_txt, clock, calls_started, request_log, policy_reads>>

\* time.sleep(delay) returns, not before the delay has passed.
Wake(t) ==
    /\ can_fetch_calls[t].pc = "sleeping"
    /\ clock >= can_fetch_calls[t].wake
    /\ can_fetch_calls' = [can_fetch_calls EXCEPT ![t].pc = "record"]
    /\ UNCHANGED <<detectVars, pdfVars, chunkerVars, pipelineVars, respect_robots, rate_limit, user_agent, parsers, last_request_time,
                   robots_txt, clock, calls_started, fetch_results, request_log, policy_reads>>

\* (d) last_request_time[domain] = time.time(); the call returns (True, None).
Record(t) ==
    /\ can_fetch_calls[t].pc = "record"
    /\ LET call == can_fetch_calls[t]
       IN  /\ last_request_time' = (call.domain :> clock) @@ last_request_time
           /\ request_log' = Append(request_log,
                    [domain |-> call.domain, time |-> clock, slept |-> call.slept,
                     delay |-> call.delay])
           /\ fetch_results' = Append(fetch_results, FetchResult(call, TRUE, "None"))
    /\ can_fetch_calls' = [can_fetch_calls EXCEPT ![t] = IdleCall]
    /\ UNCHANGED <<detectVars, pdfVars, chunkerVars, pipelineVars, respect_robots, rate_limit, user_agent, parsers, robots_txt, clock,
                   calls_started, policy_reads>>

\* The fail-open exit: after time.sleep(rate_limit) the call returns
\* (True, "Erreur de vérification: ...").
ErrorWake(t) ==
    /\ can_fetch_calls[t].pc = "error_sleep"
    /\ clock >= can_fetch_calls[t].wake
    /\ fetch_results' = Append(fetch_results,
            FetchResult(can_fetch_calls[t], TRUE,
                        "Erreur de vérification: " \o robots_txt[can_fetch_calls[t].domain].error))
    /\ can_fetch_calls' = [can_fetch_calls EXCEPT ![t] = IdleCall]
    /\ UNCHANGED <<detectVars, pdfVars, chunkerVars, pipelineVars, respect_robots, rate_limit, user_agent, parsers, last_request_time,
                   robots_txt, clock, calls_started, request_log, policy_reads>>

\* A second passes.
Tick ==
    /\ pc = "robots"
    /\ clock < MaxClock
    /\ clock' = clock + 1
    /\ UNCHANGED <<detectVars, pdfVars, chunkerVars, pipelineVars, respect_robots, rate_limit, user_agent, parsers, last_request_time,
                   robots_txt, can_fetch_calls, calls_started, fetch_results, request_log,
                   policy_reads>>

NextRobots ==
    \/ \E t \in DOMAIN can_fetch_calls : \E url \in Urls : CanFetchBegin(t, url)
    \/ \E t \in DOMAIN can_fetch_calls : PolicyLookup(t)
    \/ \E t \in DOMAIN can_fetch_calls : PolicyFetch(t)
    \/ \E t \in DOMAIN can_fetch_calls : PolicyCheck(t)
    \/ \E t \in DOMAIN can_fetch_calls : Wake(t)
    \/ \E t \in DOMAIN can_fetch_calls : Record(t)
    \/ \E t \in DOMAIN can_fetch_calls : ErrorWake(t)
    \/ Tick

\* One caller: the can_fetch calls come one after the other.
SpecRobots == InitChecker(1) /\ [][NextRobots]_vars

\* Two threads call can_fetch on the same checker.
SpecRobotsConcurrent == InitChecker(2) /\ [][NextRobots]_vars

(***************************************************************************)
(* Length-based chunking: chunk_by_length(text, max_length, overlap)       *)
(* (src/processors/html_chunker.py and src/processors/pdf_processor.py,    *)
(* described in section 4.2 of the specification and exercised by          *)
(* src/tests/test_html_chunker.py).  Positions are 0-based, as in Python.  *)
(***************************************************************************)
\* The characters of a text: a letter, a sentence terminator, a newline and
\* a word boundary.
TextChars == {"a", ".", "\n", " "}

\* The break points, in priority order.
Separators == <<".", "\n", " ">>

\* text[a:b] of Python, for 0 <= a.
Slice(t, a, b) == SubSeq(t, a + 1, Min(b, Len(t)))

\* The positions of the window [from, end) where `separator` stands, no
\* further than `back` characters before the window end.
BreaksAt(t, separator, from, end, back) ==
    {p \in Max(from, end - back)..(end - 1) : p >= 0 /\ t[p + 1] = separator}

\* A plausible slip: the last word boundary is taken, whatever stands before
\* it, and the character after it is kept in the chunk.
choose_cut_past_window(t, from, end, back) ==
    IF BreaksAt(t, " ", from, end + 1, back) # {}
    THEN 1 + CHOOSE p \in BreaksAt(t, " ", from, end + 1, back) :
                \A q \in BreaksAt(t, " ", from, end + 1, back) : q <= p
    ELSE end

\* The cut point of the window [from, end): just after the last sentence
\* terminator within the look-back distance, else after the last newline,
\* else after the last word boundary, else the window end.
choose_cut(t, from, end, back) ==
    LET Last(S) == CHOOSE p \in S : \A q \in S : q <= p
        found == {k \in DOMAIN Separators : BreaksAt(t, Separators[k], from, end, back) # {}}
    IN  IF found = {} THEN end
        ELSE 1 + Last(BreaksAt(t, Separators[CHOOSE k \in found : \A j \in found : k <= j],
                               from, end, back))

\* chunk_by_length(text, max_length, overlap) is called.
InitChunkByLength ==
    /\ source_text \in SeqsUpTo(TextChars, MaxText)
    /\ max_length \in 2..MaxWindow
    /\ overlap \in 0..(max_length - 1)
    /\ look_back \in 1..max_length
    /\ start = 0
    /\ windows = <<>>
    /\ length_chunks = <<>>
    /\ document = <<>>
    /\ method = "length"
    /\ html_chunks = <<>>
    /\ pc = IF source_text = <<>> THEN "chunked" ELSE "chunk_by_length"
    /\ chunks = <<>>
    /\ llm_provider = {}
    /\ max_chunks = PyNone
    /\ max_workers = DefaultWorkers
    /\ Pass1Idle
    /\ Pass2Idle
    /\ RobotsIdle
    /\ DetectIdle
    /\ PdfIdle

\* A plausible slip: the next window starts at the cut, with no overlap.
SlideWindow_without_overlap ==
    /\ pc = "chunk_by_length"
    /\ Len(windows) < Len(source_text)
    /\ LET end == Min(start + max_length, Len(source_text))
           cut == IF end < Len(source_text) THEN choose_cut(source_text, start, end, look_back) ELSE end
       IN  /\ windows' = Append(windows, <<start, cut>>)
           /\ length_chunks' = Append(length_chunks, Slice(source_text, Max(start, 0), cut))
           /\ IF cut < Len(source_text)
              THEN /\ start' = cut
                   /\ pc' = "chunk_by_length"
              ELSE /\ start' = start
                   /\ pc' = "chunked"
    /\ UNCHANGED <<detectVars, pdfVars, inputVars, pass1Vars, pass2Vars, robotsVars, source_text, max_length, overlap,
                   look_back, document, method, html_chunks>>

\* A plausible slip: the next window starts max_length - overlap characters
\* after the start of this one, wherever the cut was made.
SlideWindow_fixed_stride ==
    /\ pc = "chunk_by_length"
    /\ Len(windows) < Len(source_text)
    /\ LET end == Min(start + max_length, Len(source_text))
           cut == IF end < Len(source_text) THEN choose_cut(source_text, start, end, look_back) ELSE end
       IN  /\ windows' = Append(windows, <<start, cut>>)
           /\ length_chunks' = Append(length_chunks, Slice(source_text, Max(start, 0), cut))
           /\ IF cut < Len(source_text)
              THEN /\ start' = start + max_length - overlap
                   /\ pc' = "chunk_by_length"
              ELSE /\ start' = start
                   /\ pc' = "chunked"
    /\ UNCHANGED <<detectVars, pdfVars, inputVars, pass1Vars, pass2Vars, robotsVars, source_text, max_length, overlap,
                   look_back, document, method, html_chunks>>

\* One turn of the loop: the window [start, start + max_length) is cut, the
\* chunk appended, and the next window starts `overlap` characters before
\* the cut; the window that reaches the end of the text is the last one.
\* (A loop whose windows each start after the one before makes at most as
\* many windows as the text has characters; it is followed no further.)
SlideWindow ==
    /\ pc = "chunk_by_length"
    /\ Len(windows) < Len(source_text)
    /\ LET end == Min(start + max_length, Len(source_text))
           cut == IF end < Len(source_text) THEN choose_cut(source_text, start, end, look_back) ELSE end
       IN  /\ windows' = Append(windows, <<start, cut>>)
           /\ length_chunks' = Append(length_chunks, Slice(source_text, Max(start, 0), cut))
           /\ IF cut < Len(source_text)
              THEN /\ start' = cut - overlap
                   /\ pc' = "chunk_by_length"
              ELSE /\ start' = start
                   /\ pc' = "chunked"
    /\ UNCHANGED <<detectVars, pdfVars, inputVars, pass1Vars, pass2Vars, robotsVars, source_text, max_length, overlap,
                   look_back, document, method, html_chunks>>

\* chunk_by_length returned length_chunks.
ChunkerReturn ==
    /\ pc = "chunked"
    /\ pc' = "returned"
    /\ html_chunks' = [i \in DOMAIN length_chunks |-> [text |-> length_chunks[i], origin |-> "length"]]
    /\ UNCHANGED <<detectVars, pdfVars, inputVars, pass1Vars, pass2Vars, robotsVars, source_text, max_length, overlap,
                   look_back, start, windows, length_chunks, document, method>>

NextChunkByLength ==
    \/ SlideWindow
    \/ ChunkerReturn

SpecChunkByLength == InitChunkByLength /\ [][NextChunkByLength]_vars

(***************************************************************************)
(* html_to_chunks(html, method, max_length): tag-based, length-based and   *)
(* hybrid chunking (src/processors/html_chunker.py, section 4.2 of the     *)
(* specification).  A page is the list of its block-level elements.        *)
(***************************************************************************)
Heading(t) == [tag |-> "h2", text |-> t]
Paragraph(t) == [tag |-> "p", text |-> t]

Elements ==
    {Heading(<<"a", "a", "a">>),
     Paragraph(<<"a", "a">>),
     Paragraph(<<"a", "a", "a", "a", "a">>),
     Paragraph(<<"a", "a", " ", "a", ".", "a", "a">>)}

JoinLines(a, b) == IF a = <<>> THEN b ELSE a \o <<"\n">> \o b

\* soup.get_text(separator): the texts of the elements, one per line.
RECURSIVE FlattenText(_)
FlattenText(elements) ==
    IF elements = <<>> THEN <<>>
    ELSE JoinLines(Head(elements).text, FlattenText(Tail(elements)))

\* chunk_by_length as a function of its arguments: the chunks from the
\* window starting at `from` on, or loops = TRUE when the loop does not end
\* (a loop that ends makes at most Len(t) windows).
RECURSIVE length_split(_, _, _, _, _, _)
length_split(t, from, m, o, back, fuel) ==
    IF t = <<>> THEN [loops |-> FALSE, chunks |-> <<>>]
    ELSE IF fuel = 0 \/ from < 0 THEN [loops |-> TRUE, chunks |-> <<>>]
    ELSE LET end == Min(from + m, Len(t))
             cut == IF end < Len(t) THEN choose_cut(t, from, end, back) ELSE end
             rest == IF cut < Len(t) THEN length_split(t, cut - o, m, o, back, fuel - 1)
                     ELSE [loops |-> FALSE, chunks |-> <<>>]
         IN  [loops |-> rest.loops, chunks |-> <<Slice(t, from, cut)>> \o rest.chunks]

Labelled(texts, origin) == [i \in DOMAIN texts |-> [text |-> texts[i], origin |-> origin]]

\* chunk_by_tags: the elements are accumulated in `current` under the
\* nearest preceding heading `context`; the chunk is flushed when the next
\* element would make it exceed max_length, and the next chunk starts with
\* the heading as its prefix; an element that alone exceeds max_length is
\* emitted alone, length-split.
RECURSIVE chunk_by_tags(_, _, _, _, _, _)
chunk_by_tags(elements, current, context, m, o, back) ==
    LET flushed == IF current = <<>> THEN <<>> ELSE Labelled(<<current>>, "accumulated")
    IN  IF elements = <<>> THEN [loops |-> FALSE, chunks |-> flushed]
        ELSE LET e == Head(elements)
                 heading == IF e.tag = "h2" THEN e.text ELSE context
             IN  IF Len(e.text) > m
                 THEN LET pieces == length_split(e.text, 0, m, o, back, Len(e.text))
                          rest == chunk_by_tags(Tail(elements), <<>>, heading, m, o, back)
                      IN  [loops |-> pieces.loops \/ rest.loops,
                           chunks |-> flushed \o Labelled(pieces.chunks, "element") \o rest.chunks]
                 ELSE IF current # <<>> /\ Len(JoinLines(current, e.text)) > m
                 THEN LET begun == IF e.tag = "h2" THEN e.text ELSE JoinLines(context, e.text)
                          rest == chunk_by_tags(Tail(elements), begun, heading, m, o, back)
                      IN  [loops |-> rest.loops, chunks |-> flushed \o rest.chunks]
                 ELSE chunk_by_tags(Tail(elements), JoinLines(current, e.text), heading, m, o, back)

\* Hybrid: every tag-based chunk still longer than max_length is
\* length-chunked.
RECURSIVE rechunk_long(_, _, _, _)
rechunk_long(tagged, m, o, back) ==
    IF tagged = <<>> THEN [loops |-> FALSE, chunks |-> <<>>]
    ELSE LET c == Head(tagged)
             pieces == IF Len(c.text) > m
                       THEN LET r == length_split(c.text, 0, m, o, back, Len(c.text))
                            IN  [loops |-> r.loops, chunks |-> Labelled(r.chunks, "rechunked")]
                       ELSE [loops |-> FALSE, chunks |-> <<c>>]
             rest == rechunk_long(Tail(tagged), m, o, back)
         IN  [loops |-> pieces.loops \/ rest.loops, chunks |-> pieces.chunks \o rest.chunks]

\* html_to_chunks(html, method, max_length) is called on a parsed page.
InitHtmlToChunks ==
    /\ document \in SeqsUpTo(Elements, MaxElements)
    /\ method \in {"tags", "length", "hybrid"}
    /\ max_length \in 2..MaxWindow
    /\ overlap \in 0..(max_length - 1)
    /\ look_back \in 1..max_length
    /\ source_text = <<>>
    /\ start = 0
    /\ windows = <<>>
    /\ length_chunks = <<>>
    /\ html_chunks = <<>>
    /\ pc = "html_to_chunks"
    /\ chunks = <<>>
    /\ llm_provider = {}
    /\ max_chunks = PyNone
    /\ max_workers = DefaultWorkers
    /\ Pass1Idle
    /\ Pass2Idle
    /\ RobotsIdle
    /\ DetectIdle
    /\ PdfIdle

\* method == 'length': chunk_by_length is entered with the text of the page.
ChunkPageByLength ==
    /\ pc = "html_to_chunks"
    /\ method = "length"
    /\ source_text' = FlattenText(document)
    /\ pc' = IF document = <<>> THEN "chunked" ELSE "chunk_by_length"
    /\ UNCHANGED <<detectVars, pdfVars, inputVars, pass1Vars, pass2Vars, robotsVars, max_length, overlap, look_back,
                   start, windows, length_chunks, document, method, html_chunks>>

\* method == 'tags' or 'hybrid': the tag-based chunks, length-chunked again
\* where they are too long under 'hybrid'; a length split that does not end
\* leaves the call looping.
ChunkPageByTags ==
    /\ pc = "html_to_chunks"
    /\ method \in {"tags", "hybrid"}
    /\ LET tagged == chunk_by_tags(document, <<>>, <<>>, max_length, overlap, look_back)
           result == IF method = "hybrid" /\ ~tagged.loops
                     THEN rechunk_long(tagged.chunks, max_length, overlap, look_back)
                     ELSE tagged
       IN  IF result.loops
           THEN /\ pc' = "looping"
                /\ UNCHANGED html_chunks
           ELSE /\ pc' = "returned"
                /\ html_chunks' = result.chunks
    /\ UNCHANGED <<detectVars, pdfVars, inputVars, pass1Vars, pass2Vars, robotsVars, source_text, max_length, overlap,
                   look_back, start, windows, length_chunks, document, method>>

NextHtmlToChunks ==
    \/ ChunkPageByLength
    \/ ChunkPageByTags
    \/ SlideWindow
    \/ ChunkerReturn

SpecHtmlToChunks == InitHtmlToChunks /\ [][NextHtmlToChunks]_vars

(***************************************************************************)
(* EnhancedDataExtractor.detect_website_type.                              *)
(***************************************************************************)
MaxWords == 3

\* Lines 40-56: self.website_patterns, in the insertion order of the dict
\* (the priority_sections are not read by detect_website_type).
website_patterns ==
    <<[type |-> "REVIEW",
       domains |-> {"frandroid.com", "phonandroid.com", "numerama.com", "clubic.com"},
       indicators |-> {<<"t", "e", "s", "t">>, <<"r", "e", "v", "i", "e", "w">>,
                       <<"a", "v", "i", "s">>,
                       <<"c", "r", "i", "t", "i", "q", "u", "e">>,
                       <<"v", "e", "r", "d", "i", "c", "t">>, <<"n", "o", "t", "e">>,
                       <<"r", "a", "t", "i", "n", "g">>}],
      [type |-> "ECOMMERCE",
       domains |-> {"cdiscount.com", "amazon.fr", "fnac.com", "darty.com"},
       indicators |-> {<<"p", "r", "i", "x">>, <<"a", "c", "h", "e", "t", "e", "r">>,
                       <<"a", "j", "o", "u", "t", "e", "r", " ", "p", "a", "n", "i", "e", "r">>,
                       <<"p", "r", "o", "m", "o", "t", "i", "o", "n">>,
                       <<"o", "f", "f", "r", "e">>}],
      [type |-> "NEWS",
       domains |-> {"lemonde.fr", "lefigaro.fr", "bfmtv.com"},
       indicators |-> {<<"a", "c", "t", "u", "a", "l", "i", "t", "é">>,
                       <<"n", "e", "w", "s">>, <<"i", "n", "f", "o">>,
                       <<"a", "r", "t", "i", "c", "l", "e">>}]>>

\* str.lower() of the host names of the model
LowerHost == ("Amazon.FR" :> "amazon.fr") @@ ("LeMonde.fr" :> "lemonde.fr")

\* Lines 81-85: urllib.parse.urlparse(url).netloc.lower()
_extract_domain(url) ==
    IF url.netloc \in DOMAIN LowerHost THEN LowerHost[url.netloc] ELSE url.netloc

\* The number of indicators of the group that occur in the text (lines 69-72).
indicator_score(group, text) ==
    Cardinality({indicator \in website_patterns[group].indicators : Contains(text, indicator)})

\* Lines 58-79.  In line 65 the generator's own variable `domain` hides the
\* domain of the URL: the test asks whether some entry of the group's list
\* is in that list.
detect_website_type(url, content) ==
    LET domain == _extract_domain(url)
        content_lower == Lower(content)
        known == SelectSeq(website_patterns,
                           LAMBDA patterns : \E entry \in patterns.domains :
                                                    entry \in patterns.domains)
        review_score == indicator_score(1, content_lower)
        ecommerce_score == indicator_score(2, content_lower)
    IN  IF known # <<>> THEN [type |-> known[1].type, by |-> "domain"]
        ELSE IF review_score > ecommerce_score /\ review_score >= 2
             THEN [type |-> "REVIEW", by |-> "content"]
        ELSE IF ecommerce_score >= 2 THEN [type |-> "ECOMMERCE", by |-> "content"]
        ELSE [type |-> "GENERAL", by |-> "content"]

SiteUrls ==
    {[scheme |-> "https", netloc |-> host, path |-> "/article"] :
        host \in {"frandroid.com", "amazon.fr", "Amazon.FR", "www.fnac.com",
                  "LeMonde.fr", "example.org"}}

ContentWords ==
    {<<"T", "e", "s", "t">>, <<"a", "v", "i", "s">>, <<"n", "o", "t", "e", "b", "o", "o", "k">>,
     <<"P", "r", "i", "x">>, <<"o", "f", "f", "r", "e">>, <<"b", "o", "n">>}

\* " ".join(words)
RECURSIVE JoinWords(_)
JoinWords(words) ==
    IF words = <<>> THEN <<>>
    ELSE IF Len(words) = 1 THEN words[1]
    ELSE words[1] \o <<" ">> \o JoinWords(Tail(words))

InitDetect ==
    /\ site_url \in SiteUrls
    /\ content_sample \in {JoinWords(words) : words \in SeqsUpTo(ContentWords, MaxWords)}
    /\ website_type = "none"
    /\ matched_by = "none"
    /\ pc = "detect_website_type"
    /\ chunks = <<>>
    /\ llm_provider = {}
    /\ max_chunks = PyNone
    /\ max_workers = DefaultWorkers
    /\ Pass1Idle
    /\ Pass2Idle
    /\ RobotsIdle
    /\ ChunkerIdle
    /\ PdfIdle

DetectWebsiteType ==
    /\ pc = "detect_website_type"
    /\ LET detected == detect_website_type(site_url, content_sample)
       IN  /\ website_type' = detected.type
           /\ matched_by' = detected.by
    /\ pc' = "detected"
    /\ UNCHANGED <<inputVars, pass1Vars, pass2Vars, robotsVars, chunkerVars, pdfVars,
                   site_url, content_sample>>

NextDetect == DetectWebsiteType

SpecDetect == InitDetect /\ [][NextDetect]_vars

(***************************************************************************)
(* extract_text_from_pdf (src/processors/pdf_processor.py, described in    *)
(* section 4.3 of the specification and exercised by                       *)
(* tests/test_pdf_processor.py).                                           *)
(***************************************************************************)
MaxPages == 2

\* The fallback chain: the primary engine (PyMuPDF), the secondary library
\* (PyPDF2), OCR over rendered page images.
EngineOrder == <<"primary", "secondary", "ocr">>

\* The text of the pages, each followed by a blank line (test lines 71, 98).
RECURSIVE JoinPages(_)
JoinPages(pages) ==
    IF pages = <<>> THEN ""
    ELSE pages[1] \o "\n\n" \o JoinPages(Tail(pages))

\* An engine is not installed, raises on the file, or reads its pages.
EngineBehaviours ==
    {[kind |-> "missing", pages |-> <<>>], [kind |-> "error", pages |-> <<>>]}
        \cup {[kind |-> "pages", pages |-> pages] :
                pages \in SeqsUpTo({"Page content", "Scan"}, MaxPages)}

InitPdf ==
    /\ pdf_exists \in BOOLEAN
    /\ pdf_engines \in [Range(EngineOrder) -> EngineBehaviours]
    /\ engines_tried = <<>>
    /\ pdf_text = ""
    /\ pc = "extract_text_from_pdf"
    /\ chunks = <<>>
    /\ llm_provider = {}
    /\ max_chunks = PyNone
    /\ max_workers = DefaultWorkers
    /\ Pass1Idle
    /\ Pass2Idle
    /\ RobotsIdle
    /\ ChunkerIdle
    /\ DetectIdle

\* The file is looked for; without it the empty string is returned.
PdfFileCheck ==
    /\ pc = "extract_text_from_pdf"
    /\ pc' = IF pdf_exists THEN "pdf_engines" ELSE "pdf_returned"
    /\ UNCHANGED <<inputVars, pass1Vars, pass2Vars, robotsVars, chunkerVars, detectVars, pdfVars>>

\* A plausible slip: the failure of an engine ends the call with the empty
\* string instead of moving to the next engine.
PdfTryEngine_gives_up ==
    /\ pc = "pdf_engines"
    /\ LET engine == EngineOrder[Len(engines_tried) + 1]
           behaviour == pdf_engines[engine]
       IN  /\ engines_tried' = Append(engines_tried, engine)
           /\ pdf_text' = IF behaviour.kind = "pages" THEN JoinPages(behaviour.pages) ELSE ""
           /\ pc' = "pdf_returned"
    /\ UNCHANGED <<inputVars, pass1Vars, pass2Vars, robotsVars, chunkerVars, detectVars,
                   pdf_exists, pdf_engines>>

\* The next engine of the chain is tried: its text is returned, or its
\* failure (ImportError or any other exception) is caught and the chain
\* goes on; after the last engine the empty string is returned.
PdfTryEngine ==
    /\ pc = "pdf_engines"
    /\ LET engine == EngineOrder[Len(engines_tried) + 1]
           behaviour == pdf_engines[engine]
       IN  /\ engines_tried' = Append(engines_tried, engine)
           /\ IF behaviour.kind = "pages"
              THEN pdf_text' = JoinPages(behaviour.pages) /\ pc' = "pdf_returned"
              ELSE IF engine = EngineOrder[Len(EngineOrder)]
                   THEN pdf_text' = "" /\ pc' = "pdf_returned"
                   ELSE UNCHANGED <<pdf_text, pc>>
    /\ UNCHANGED <<inputVars, pass1Vars, pass2Vars, robotsVars, chunkerVars, detectVars,
                   pdf_exists, pdf_engines>>

NextPdf ==
    \/ PdfFileCheck
    \/ PdfTryEngine

SpecPdf == InitPdf /\ [][NextPdf]_vars

(***************************************************************************)
(* Properties of pass 1.                                                   *)
(***************************************************************************)
FirstPassDone == pc = "first_pass_done"

\* C1: for every list of n chunks and every completion order of the
\* concurrent classification tasks, analyze_chunks_first_pass returns
\* exactly n analyses, one for each chunk index 0..n-1, in ascending
\* chunk_index order.
C1_OneAnalysisPerChunkInOrder ==
    FirstPassDone =>
        /\ Len(analyses) = Len(chunks)
        /\ \A k \in 1..Len(analyses) : analyses[k].chunk_index = k - 1

\* The futures of three chunks completed in the reverse of their order.
C1_ReverseCompletion ==
    FirstPassDone /\ Len(chunks) = 3 /\ completion_order = <<2, 1, 0>>

\* The provider was called for chunk k and its reply was used as the
\* chunk's classification.
ClassifiedByLLM(k) ==
    /\ p1_calls[k] = 1
    /\ ~p1_outcome[k].raised
    /\ IsDict(p1_outcome[k].value)
    /\ HasKey(p1_outcome[k].value, "content_type")
    /\ ~float(Get(p1_outcome[k].value, "relevance_score", PyNum(500))).raised
    /\ ~int(Get(p1_outcome[k].value, "priority", PyNum(3000))).raised

FallbackTypes == {PyStr("specs"), PyStr("pricing"), PyStr("review"), PyStr("general"),
                  PyStr("unknown")}

\* C2: in pass 1 a failed classification task gives a fallback or default
\* analysis to its own chunk only: every other chunk still gets the
\* analysis of its own reply, and the pass goes on to its return instead
\* of raising.
C2_FailureStaysWithItsChunk ==
    /\ FirstPassDone =>
        \A k \in 1..Len(analyses) :
            IF ClassifiedByLLM(k)
            THEN /\ analyses[k].content_type = p1_outcome[k].value.d["content_type"]
                 /\ analyses[k].relevance_score =
                        float(Get(p1_outcome[k].value, "relevance_score", PyNum(500))).value
                 /\ analyses[k].priority =
                        int(Get(p1_outcome[k].value, "priority", PyNum(3000))).value
            ELSE /\ analyses[k].content_type \in FallbackTypes
                 /\ analyses[k].key_topics = PyList(<<>>)
                 /\ analyses[k].content_type = PyStr("unknown") <=> ~IsText(chunks[k])
    /\ pc = "collecting" =>
        \/ \E k \in DOMAIN tasks : tasks[k] \in {"running", "finished"}
        \/ \A k \in DOMAIN tasks : tasks[k] = "collected"
    /\ pc # "raised"

\* Three chunks: one task failed outright, one had its provider call
\* raise, one was classified by the provider.
C2_OneFailsOthersClassified ==
    /\ FirstPassDone
    /\ \E i, j, k \in 1..Len(chunks) :
        /\ futures[i].raised /\ analyses[i] = default_analysis(i - 1)
        /\ p1_calls[j] = 1 /\ p1_outcome[j].raised
        /\ ClassifiedByLLM(k) /\ analyses[k].content_type = PyStr("specs")

\* The three ways the LLM classification of chunk k can fail (C4).
ClassificationFailed(k) ==
    /\ p1_calls[k] = 1
    /\ \/ p1_outcome[k].raised
       \/ ~IsDict(p1_outcome[k].value)
       \/ ~HasKey(p1_outcome[k].value, "content_type")

\* The stated rule of C4: the content type of a text.
C4_ContentType(text) ==
    LET occurs(kw) == Contains(Lower(text), kw)
        count(keywords) == Cardinality({i \in DOMAIN keywords : occurs(keywords[i])})
    IN  IF count(specs_keywords) >= 3 THEN "specs"
        ELSE IF count(pricing_keywords) >= 1 THEN "pricing"
        ELSE IF count(review_keywords) >= 1 THEN "review"
        ELSE "general"

C4_Priority(kind) ==
    CASE kind \in {"specs", "review"} -> 1
      [] kind = "pricing" -> 2
      [] OTHER -> 3

SameButIndex(a, b) == [a EXCEPT !.chunk_index = 0] = [b EXCEPT !.chunk_index = 0]

\* C4: whenever the LLM classification of a chunk fails (the provider
\* raises, the reply is not an object, or it lacks content_type), the
\* chunk's analysis depends on the chunk text alone and is computed with no
\* further provider call: specs if at least 3 spec keywords occur, else
\* pricing if a currency symbol or price keyword occurs, else review if a
\* review keyword occurs, else general; priority 1 for specs and review, 2
\* for pricing, 3 for general; "prix: 999€, promotion" gives pricing,
\* priority 2, contains_pricing true.
C4_HeuristicFallback ==
    FirstPassDone =>
        \A k \in 1..Len(analyses) :
            (IsText(chunks[k]) /\ ClassificationFailed(k)) =>
                /\ analyses[k].content_type = PyStr(C4_ContentType(chunks[k].chars))
                /\ analyses[k].priority = C4_Priority(C4_ContentType(chunks[k].chars))
                /\ p1_calls[k] = 1
                /\ \A j \in 1..Len(analyses) :
                        (chunks[j] = chunks[k] /\ ClassificationFailed(j)) =>
                            SameButIndex(analyses[j], analyses[k])
                /\ chunks[k] = PyText(TxtPricing) =>
                        /\ analyses[k].content_type = PyStr("pricing")
                        /\ analyses[k].priority = 2
                        /\ analyses[k].contains_pricing = PyBool(TRUE)

\* "verdict: tarif", which holds a price keyword and a review keyword, was
\* classified by the heuristic after the provider raised.
C4_PriceBeforeReview ==
    /\ FirstPassDone
    /\ \E k \in 1..Len(chunks) :
        /\ chunks[k] = PyText(TxtPriceReview)
        /\ p1_outcome[k].raised
        /\ analyses[k].content_type = PyStr("pricing")

ContentTypes == {PyStr("specs"), PyStr("pricing"), PyStr("review"), PyStr("product_list"),
                 PyStr("general"), PyStr("unknown")}

\* C5: every ChunkAnalysis pass 1 hands to pass 2, from an LLM reply or
\* from the fallback, has content_type in {specs, pricing, review,
\* product_list, general, unknown}, priority in {1,2,3} and
\* relevance_score in [0,1].
C5_AnalysisInRange ==
    FirstPassDone =>
        \A k \in 1..Len(analyses) :
            /\ analyses[k].content_type \in ContentTypes
            /\ analyses[k].priority \in {1, 2, 3}
            /\ analyses[k].relevance_score >= 0
            /\ analyses[k].relevance_score <= 1000

(***************************************************************************)
(* Properties of the whole pipeline.                                       *)
(***************************************************************************)
\* C3: for every chunk list and every behaviour of the extraction
\* capability (raising, returning a non-object, returning an object of any
\* shape), enhanced_extract_data_from_chunks returns a mapping and never
\* raises; when every call of the capability fails the mapping is empty.
C3_ReturnsMappingNeverRaises ==
    /\ pc # "raised"
    /\ pc = "done" => IsDict(aggregated.value)
    /\ (/\ pc = "done"
        /\ \A k \in DOMAIN p1_outcome : p1_calls[k] = 1 => p1_outcome[k].raised
        /\ \A i \in DOMAIN p2_outcome : p2_outcome[i].raised)
            => aggregated.value = EmptyDict

(***************************************************************************)
(* Properties of pass 2.                                                   *)
(***************************************************************************)
SecondPassOver == pc \in {"done", "raised"}

Extracted == {p2_calls[i].chunk_index : i \in DOMAIN p2_calls}

\* a comes strictly before b in (priority ascending, relevance_score descending)
SortsBefore(a, b) ==
    \/ a.priority < b.priority
    \/ a.priority = b.priority /\ a.relevance_score > b.relevance_score

\* C6: pass 2 calls the extraction capability exactly once for each chunk
\* among the first max_chunks entries of the analyses sorted by (priority
\* ascending, relevance_score descending) and for no other chunk: whenever
\* a max_chunks value is supplied, at most max_chunks chunks are extracted
\* and no excluded chunk sorts before an included one.
C6_CallsFirstMaxChunks ==
    SecondPassOver =>
        /\ Cardinality(Extracted) = Len(p2_calls)
        /\ Extracted \subseteq {analyses[k].chunk_index : k \in DOMAIN analyses}
        /\ max_chunks = PyNone => Len(p2_calls) = Len(analyses)
        /\ max_chunks # PyNone =>
                /\ Len(p2_calls) <= max_chunks.n
                /\ Len(p2_calls) = Min(max_chunks.n, Len(analyses))
        /\ \A i, j \in DOMAIN analyses :
                (analyses[i].chunk_index \in Extracted /\ analyses[j].chunk_index \notin Extracted)
                    => ~SortsBefore(analyses[j], analyses[i])

\* The dicts the calls made for the chunks of content type ctype returned,
\* in call order.
KeptOutcomes(ctype, calls) ==
    LET kept == SelectSeq([i \in DOMAIN p2_calls |-> i],
                          LAMBDA i : /\ analyses[p2_calls[i].chunk_index + 1].content_type = ctype
                                     /\ ~p2_outcome[i].raised
                                     /\ IsDict(p2_outcome[i].value)
                                     /\ i \in calls)
    IN  [j \in DOMAIN kept |-> p2_outcome[kept[j]].value]

AnyCall == DOMAIN p2_calls
GroupTypes == {sorted_analyses[i].content_type : i \in DOMAIN sorted_analyses}

\* C7: in pass 2 a chunk whose extraction call raises or returns a value
\* that is not an object is skipped, and every remaining chunk of every
\* content-type group is still extracted and aggregated; the pass never
\* aborts because of one failed chunk.
C7_FailedChunkSkipped ==
    /\ SecondPassOver =>
        /\ Len(p2_calls) = Len(sorted_analyses)
        /\ Extracted = {sorted_analyses[i].chunk_index : i \in DOMAIN sorted_analyses}
        /\ DOMAIN extraction_results \subseteq GroupTypes
        /\ \A ctype \in GroupTypes :
                IF KeptOutcomes(ctype, AnyCall) = <<>>
                THEN ctype \notin DOMAIN extraction_results
                ELSE /\ ctype \in DOMAIN extraction_results
                     /\ extraction_results[ctype] = KeptOutcomes(ctype, AnyCall)
        /\ RespReview \in Range(KeptOutcomes(KeyReview, AnyCall)) =>
                /\ pc = "done"
                /\ aggregated.value.d["points_forts"] = PyList(<<PyStr("A")>>)
    /\ (pc = "raised" /\ p2_calls # <<>>) =>
            \A i \in DOMAIN p2_calls : ~p2_outcome[i].raised /\ IsDict(p2_outcome[i].value)

\* The first call of a review group raised, the second returned a non-object,
\* the third returned a dict, and that dict was aggregated.
C7_SkippedThenKept ==
    /\ pc = "done"
    /\ Len(p2_calls) = 3
    /\ p2_outcome[1].raised
    /\ ~p2_outcome[2].raised /\ ~IsDict(p2_outcome[2].value)
    /\ p2_outcome[3] = Returned(RespReview)
    /\ KeyReview \in DOMAIN extraction_results
    /\ extraction_results[KeyReview] = <<RespReview>>

ProviderFailed(i) == p2_calls[i].behaviour.kind \in {"no_api_key", "api_error", "bad_json"}
ProviderAnswered == {i \in DOMAIN p2_calls : ~ProviderFailed(i)}

\* The extraction results without the chunks whose call failed at the provider.
ResultsWithoutFailures ==
    [ctype \in {c \in GroupTypes : KeptOutcomes(c, ProviderAnswered) # <<>>} |->
        KeptOutcomes(ctype, ProviderAnswered)]

\* C8: a chunk whose pass-2 extraction fails at the provider (provider
\* error, timeout or malformed JSON) is a per-chunk failure: it contributes
\* no key and no value to the aggregated result.
C8_ProviderFailureContributesNothing ==
    pc = "done" =>
        aggregated \in
            {aggregate_extraction_results(ResultsWithoutFailures, forts, faibles) :
                forts \in (IF KeyReview \in DOMAIN ResultsWithoutFailures
                           THEN SetOrders(ResultsWithoutFailures[KeyReview], "points_forts")
                           ELSE {<<>>}),
                faibles \in (IF KeyReview \in DOMAIN ResultsWithoutFailures
                             THEN SetOrders(ResultsWithoutFailures[KeyReview], "points_faibles")
                             ELSE {<<>>})}

(***************************************************************************)
(* Properties of the aggregation.                                          *)
(***************************************************************************)
\* The recursive merge of two mappings: dict values merged at every depth,
\* the second mapping's value kept where two leaves conflict.
RECURSIVE DeepMergeDicts(_, _)
DeepMergeDicts(d1, d2) ==
    [k \in DOMAIN d1 \cup DOMAIN d2 |->
        IF k \notin DOMAIN d2 THEN d1[k]
        ELSE IF k \notin DOMAIN d1 THEN d2[k]
        ELSE IF IsDict(d1[k]) /\ IsDict(d2[k])
             THEN PyDict(DeepMergeDicts(d1[k].d, d2[k].d))
        ELSE d2[k]]

RECURSIVE DeepMergeAll(_)
DeepMergeAll(results) ==
    IF results = <<>> THEN <<>>
    ELSE DeepMergeDicts(DeepMergeAll(SubSeq(results, 1, Len(results) - 1)),
                        results[Len(results)].d)

SpecsGiven == KeySpecs \in DOMAIN extraction_results

\* C9: the aggregated caracteristiques_techniques is the recursive deep
\* merge of the specs results in processing order: dict values merged at
\* every nesting depth, the later result's value kept wherever two results
\* give conflicting leaf values for the same key path.
C9_SpecsDeepMerged ==
    (pc = "done" /\ SpecsGiven) =>
        aggregated.value.d["caracteristiques_techniques"] =
            PyDict(DeepMergeAll(extraction_results[KeySpecs]))

\* No key path is given a leaf by one mapping and another value by the other.
RECURSIVE NoConflict(_, _)
NoConflict(d1, d2) ==
    \A k \in DOMAIN d1 \cap DOMAIN d2 :
        IF IsDict(d1[k]) /\ IsDict(d2[k]) THEN NoConflict(d1[k].d, d2[k].d)
        ELSE d1[k] = d2[k]

Reorderings(n) == {f \in [1..n -> 1..n] : Range(f) = 1..n}

\* C10: for specs results without key-level conflicts, aggregating them in
\* any of their orders yields the same caracteristiques_techniques mapping.
C10_SpecsOrderIndependent ==
    (pc = "done" /\ SpecsGiven) =>
        LET results == extraction_results[KeySpecs]
        IN  (\A i, j \in DOMAIN results : NoConflict(results[i].d, results[j].d)) =>
                \A f \in Reorderings(Len(results)) :
                    PyDict(aggregate_specs([i \in DOMAIN results |-> results[f[i]]]))
                        = aggregated.value.d["caracteristiques_techniques"]

(***************************************************************************)
(* Properties of the aggregation of review, pricing and general results.   *)
(***************************************************************************)
ReviewGiven == KeyReview \in DOMAIN extraction_results

\* Every value the review results give for key is a list of strings.
ListsOfStrings(key) ==
    \A i \in DOMAIN extraction_results[KeyReview] :
        LET r == extraction_results[KeyReview][i]
        IN  HasKey(r, key) =>
                /\ r.d[key].t = "list"
                /\ \A j \in DOMAIN r.d[key].l : r.d[key].l[j].t = "str"

\* The values the review results list under key.
ListedValues(key) ==
    UNION {Range(extraction_results[KeyReview][i].d[key].l) :
            i \in {j \in DOMAIN extraction_results[KeyReview] :
                        HasKey(extraction_results[KeyReview][j], key)}}

\* C11: for any list of review results, the aggregated points_forts (and
\* likewise points_faibles) is, as a set, the union of the input lists and
\* holds no value twice; [{points_forts:[A]}, {points_forts:[A,B]}] gives
\* {A,B}.
C11_PointsAreDeduplicatedUnion ==
    (pc = "done" /\ ReviewGiven) =>
        /\ \A key \in {"points_forts", "points_faibles"} :
            ListsOfStrings(key) =>
                LET out == aggregated.value.d[key].l
                IN  /\ Range(out) = ListedValues(key)
                    /\ Len(out) = Cardinality(Range(out))
        /\ extraction_results[KeyReview] = <<RevA, RevAB>> =>
                Range(aggregated.value.d["points_forts"].l) = {PyStr("A"), PyStr("B")}

\* [{points_forts:[A]}, {points_forts:[A,B]}] was aggregated.
C11_SharedValueListedOnce ==
    /\ pc = "done"
    /\ ReviewGiven
    /\ extraction_results[KeyReview] = <<RevA, RevAB>>
    /\ Len(aggregated.value.d["points_forts"].l) = 2

\* The values the review results give for key, nulls left out, in order.
NonNullValues(key) ==
    LET kept == SelectSeq(extraction_results[KeyReview],
                          LAMBDA r : HasKey(r, key) /\ r.d[key] # PyNone)
    IN  [i \in DOMAIN kept |-> kept[i].d[key]]

\* C12: the aggregated note_globale is the first non-null note_globale of
\* the review results in processing order; it is null only when every
\* result's note_globale is absent or null.
C12_FirstNonNullNote ==
    (pc = "done" /\ ReviewGiven) =>
        aggregated.value.d["note_globale"] =
            IF NonNullValues("note_globale") = <<>> THEN PyNone
            ELSE NonNullValues("note_globale")[1]

\* Every verdict of the review results is a string or null.
VerdictsAreStringsOrNull ==
    \A i \in DOMAIN extraction_results[KeyReview] :
        LET r == extraction_results[KeyReview][i]
        IN  HasKey(r, "verdict") => r.d["verdict"].t \in {"str", "none"}

\* C13: the aggregated verdict is the separator-joined sequence of exactly
\* the non-null verdict strings of the review results, in processing order;
\* a result whose verdict is null is left out of the join and does not make
\* the aggregation fail.
C13_VerdictJoinsNonNull ==
    (/\ pc \in {"done", "raised"}
     /\ ReviewGiven
     /\ ListsOfStrings("points_forts") /\ ListsOfStrings("points_faibles")
     /\ VerdictsAreStringsOrNull) =>
        /\ pc = "done"
        /\ aggregated.value.d["verdict"] =
                IF NonNullValues("verdict") = <<>> THEN PyNone
                ELSE Join(NonNullValues("verdict")).value

PricingGiven == KeyPricing \in DOMAIN extraction_results

\* Every promotions value of the pricing results is a list.
PromotionsAreLists ==
    \A i \in DOMAIN extraction_results[KeyPricing] :
        LET r == extraction_results[KeyPricing][i]
        IN  HasKey(r, "promotions") => r.d["promotions"].t = "list"

\* The prix_principal values that are not null, in processing order.
NonNullPrices ==
    LET kept == SelectSeq(extraction_results[KeyPricing],
                          LAMBDA r : HasKey(r, "prix_principal") /\ r.d["prix_principal"] # PyNone)
    IN  [i \in DOMAIN kept |-> kept[i].d["prix_principal"]]

\* The prix_principal values that are neither null, nor zero, nor empty.
NonEmptyPrices ==
    LET kept == SelectSeq(extraction_results[KeyPricing],
                          LAMBDA r : /\ HasKey(r, "prix_principal")
                                     /\ r.d["prix_principal"] \notin
                                            {PyNone, PyNum(0), PyStr(""), PyList(<<>>),
                                             PyBool(FALSE), EmptyDict})
    IN  [i \in DOMAIN kept |-> kept[i].d["prix_principal"]]

RECURSIVE ConcatPromotions(_)
ConcatPromotions(results) ==
    IF results = <<>> THEN <<>>
    ELSE LET r == results[Len(results)]
         IN  ConcatPromotions(SubSeq(results, 1, Len(results) - 1)) \o
                (IF HasKey(r, "promotions") THEN r.d["promotions"].l ELSE <<>>)

\* C14 as stated: for any list of pricing results, prix_et_disponibilite.prix
\* lists, in processing order, the prix_principal of every result whose
\* prix_principal is non-null (and of no other), and promotions is the
\* concatenation of all the results' promotion lists.
C14_NonNullPricesListed ==
    (pc \in {"done", "raised"} /\ PricingGiven /\ PromotionsAreLists) =>
        /\ pc = "done"
        /\ aggregated.value.d["prix_et_disponibilite"].d["prix"].l = NonNullPrices
        /\ aggregated.value.d["prix_et_disponibilite"].d["promotions"].l =
                ConcatPromotions(extraction_results[KeyPricing])

\* C14 as amended: prix lists, in processing order, the prix_principal of
\* every result whose prix_principal is neither null, nor zero, nor empty
\* (and of no other); promotions is the concatenation of the results'
\* promotion lists.
C14_NonEmptyPricesListed ==
    (pc \in {"done", "raised"} /\ PricingGiven /\ PromotionsAreLists) =>
        /\ pc = "done"
        /\ aggregated.value.d["prix_et_disponibilite"].d["prix"].l = NonEmptyPrices
        /\ aggregated.value.d["prix_et_disponibilite"].d["promotions"].l =
                ConcatPromotions(extraction_results[KeyPricing])

\* A null price and a zero price were left out, the others listed in order.
C14_NullAndZeroLeftOut ==
    /\ pc = "done"
    /\ PricingGiven
    /\ extraction_results[KeyPricing] = <<PrixNull, PrixPromo, PrixZero>>
    /\ aggregated.value.d["prix_et_disponibilite"].d["prix"].l = <<PyStr("999€")>>
    /\ aggregated.value.d["prix_et_disponibilite"].d["promotions"].l =
            <<PyStr("soldes"), PyStr("-10%")>>

\* The shallow update of the mappings in order: the later value wins.
RECURSIVE LaterWins(_)
LaterWins(results) ==
    IF results = <<>> THEN <<>>
    ELSE LET last == results[Len(results)].d
             before == LaterWins(SubSeq(results, 1, Len(results) - 1))
         IN  [k \in DOMAIN before \cup DOMAIN last |->
                IF k \in DOMAIN last THEN last[k] ELSE before[k]]

ResultsOf(ctype) ==
    IF ctype \in DOMAIN extraction_results THEN extraction_results[ctype] ELSE <<>>

\* C15: the extraction results of the chunks classified general, and of the
\* chunks left unclassified (content_type unknown), are merged into the
\* output by shallow dict update in processing order: on a key collision
\* the later chunk's value wins.
C15_GeneralAndUnknownMerged ==
    (pc = "done" /\ ResultsOf(KeyGeneral) \o ResultsOf(KeyUnknown) # <<>>) =>
        /\ HasKey(aggregated.value, "informations_generales")
        /\ aggregated.value.d["informations_generales"] =
                PyDict(LaterWins(ResultsOf(KeyGeneral) \o ResultsOf(KeyUnknown)))

\* The keys of a result whose value has the shape its content type expects.
WellShaped(result) ==
    {k \in DOMAIN result.d :
        CASE k \in {"points_forts", "points_faibles", "promotions", "produits"} ->
                result.d[k].t = "list"
          [] k = "verdict" -> result.d[k].t = "str"
          [] OTHER -> TRUE}

\* The extraction results without the values of an unexpected shape.
WithoutMisshapen ==
    [ctype \in DOMAIN extraction_results |->
        [i \in DOMAIN extraction_results[ctype] |->
            LET result == extraction_results[ctype][i]
            IN  PyDict([k \in WellShaped(result) |-> result.d[k]])]]

\* C16: a per-chunk value that does not match the shape expected for its
\* content type (points_forts, promotions or produits that is not a list, a
\* verdict that is not a string) is ignored by the aggregation: the merged
\* output equals the output obtained without that value, and the
\* aggregation does not fail.
C16_MisshapenValueIgnored ==
    pc \in {"done", "raised"} =>
        /\ pc = "done"
        /\ aggregated \in
            {aggregate_extraction_results(WithoutMisshapen, forts, faibles) :
                forts \in (IF KeyReview \in DOMAIN WithoutMisshapen
                           THEN SetOrders(WithoutMisshapen[KeyReview], "points_forts")
                           ELSE {<<>>}),
                faibles \in (IF KeyReview \in DOMAIN WithoutMisshapen
                             THEN SetOrders(WithoutMisshapen[KeyReview], "points_faibles")
                             ELSE {<<>>})}

(***************************************************************************)
(* Properties of the worker pool.                                          *)
(***************************************************************************)
\* The pass-1 tasks a worker is running: a running task calls
\* llm_provider.extract (line 183) and does nothing else that takes time.
InFlight == {k \in DOMAIN tasks : tasks[k] = "running"}

\* C17: in each of the two passes the number of extraction-capability
\* calls in flight at any moment never exceeds min(configured max_workers,
\* chunk count).
C17_InFlightWithinMaxWorkers ==
    Cardinality(InFlight) <= Min(max_workers, Len(chunks))

(***************************************************************************)
(* Properties of the domain rate limiter.                                  *)
(***************************************************************************)
\* The positions of request_log, the successive updates of
\* last_request_time, that belong to domain d.
UpdatesOf(d) == {i \in DOMAIN request_log : request_log[i].domain = d}

\* i and j are consecutive updates of the same domain.
ConsecutiveUpdates(i, j) ==
    /\ i < j
    /\ request_log[i].domain = request_log[j].domain
    /\ \A k \in DOMAIN request_log : (i < k /\ k < j) => request_log[k].domain # request_log[i].domain

\* max(crawl_delay, rate_limit) of domain d, from its robots.txt.
SpacingOf(d) == Max(robots_txt[d].crawl_delay, rate_limit)

SpacingKept ==
    \A i, j \in DOMAIN request_log :
        ConsecutiveUpdates(i, j) =>
            request_log[j].time - request_log[i].time >= SpacingOf(request_log[i].domain)

\* The positions of fetch_results that allowed a fetch to domain d.
AllowedTo(d) == {i \in DOMAIN fetch_results : fetch_results[i].domain = d /\ fetch_results[i].allowed}

FirstOf(S) == CHOOSE i \in S : \A k \in S : i <= k

\* The call returned through the except branch.
FailedOpen(result) == result.reason \notin {"None", "Interdit par robots.txt"}

\* C18 as stated: in a sequence of can_fetch calls, two consecutive allowed
\* fetches to one domain update last_request_time at least
\* max(crawl_delay, rate_limit) apart, and the first allowed fetch to a
\* domain, whichever way it was allowed, does not wait.
C18_SpacingKeptAndFirstAllowedDoesNotWait ==
    /\ SpacingKept
    /\ \A d \in Domains : AllowedTo(d) # {} => ~fetch_results[FirstOf(AllowedTo(d))].slept

\* C18, amended: in a sequence of can_fetch calls, two consecutive allowed
\* fetches to one domain update last_request_time at least
\* max(crawl_delay, rate_limit) apart; the first fetch allowed by the
\* policy of a domain (the first update of its last_request_time) does not
\* wait and every later one does; a fetch allowed because the policy
\* could not be retrieved waits, even when it is the first to its domain.
C18_SpacingKeptAndFirstPolicyAllowedDoesNotWait ==
    /\ SpacingKept
    /\ \A d \in Domains : \A i \in UpdatesOf(d) :
            request_log[i].slept <=> i # FirstOf(UpdatesOf(d))
    /\ \A i \in DOMAIN fetch_results :
            FailedOpen(fetch_results[i]) =>
                fetch_results[i].allowed /\ fetch_results[i].slept

\* Two fetches to a domain that declares a crawl delay above the rate limit
\* were allowed, the second one after waiting exactly the crawl delay, and a
\* fetch to an unreachable domain was allowed after it slept.
C18_SecondFetchWaitedCrawlDelay ==
    /\ \E i, j \in DOMAIN request_log :
            /\ ConsecutiveUpdates(i, j)
            /\ robots_txt[request_log[i].domain].crawl_delay > rate_limit
            /\ request_log[j].time - request_log[i].time = robots_txt[request_log[i].domain].crawl_delay
            /\ request_log[j].slept
    /\ \E i \in DOMAIN fetch_results :
            FailedOpen(fetch_results[i]) /\ i = FirstOf(AllowedTo(fetch_results[i].domain))

\* C19: when several threads call can_fetch for the same domain, any two
\* allowed fetches to the domain still update last_request_time at least
\* max(crawl_delay, rate_limit) apart.
C19_ConcurrentCallsKeepSpacing ==
    \A d \in Domains : \A i, j \in UpdatesOf(d) :
        i < j => request_log[j].time - request_log[i].time >= SpacingOf(d)

\* The positions of policy_reads where the robots.txt of d was retrieved
\* and parsed.
ParsedReads(d) == {i \in DOMAIN policy_reads : policy_reads[i].domain = d /\ policy_reads[i].ok}

C21_FailsOpenAfterRateLimitSleep ==
    \A i \in DOMAIN fetch_results :
        LET result == fetch_results[i] IN
        (respect_robots /\ ~robots_txt[result.domain].reachable) =>
            /\ result.allowed
            /\ result.reason = "Erreur de vérification: " \o robots_txt[result.domain].error
            /\ result.slept
            /\ result.sleep = rate_limit

\* A fetch to a domain whose robots.txt retrieval timed out was allowed
\* with that text as its reason, after a sleep of the rate limit of 2 s.
C21_TimedOutFetchAllowed ==
    \E i \in DOMAIN fetch_results :
        /\ fetch_results[i].reason = "Erreur de vérification: timed out"
        /\ fetch_results[i].allowed
        /\ fetch_results[i].sleep > 1

\* C22: can_fetch denies, with the reason 'Interdit par robots.txt', exactly
\* when policy checking is enabled, the robots.txt was retrieved and it
\* disallows the path for the configured user agent; with policy checking
\* disabled every call is allowed at once, with no reason, and no robots.txt
\* is retrieved.
C22_DeniedExactlyWhenPolicyDisallows ==
    /\ \A i \in DOMAIN fetch_results :
            LET result == fetch_results[i]
                policy == robots_txt[result.domain]
            IN  /\ ~result.allowed <=>
                        /\ respect_robots
                        /\ policy.reachable
                        /\ result.path \in policy.disallow[user_agent]
                /\ ~result.allowed => result.reason = "Interdit par robots.txt"
                /\ ~respect_robots => result.reason = "None" /\ ~result.slept
    /\ ~respect_robots => policy_reads = <<>> /\ parsers = <<>>

\* A fetch of a disallowed path was denied, and a fetch of another path of
\* the same domain was allowed.
C22_PrivatePathDenied ==
    \E i, j \in DOMAIN fetch_results :
        /\ ~fetch_results[i].allowed
        /\ fetch_results[i].reason = "Interdit par robots.txt"
        /\ fetch_results[j].allowed
        /\ fetch_results[j].domain = fetch_results[i].domain
IsPrefix(p, q) == Len(p) <= Len(q) /\ SubSeq(q, 1, Len(p)) = p

\* The last n characters of chunk c (all of it when it is shorter).
FinalChars(c, n) == SubSeq(c, Max(Len(c) - n, 0) + 1, Len(c))

Covered(w) == {p \in 0..(Len(source_text) - 1) : w[1] <= p /\ p < w[2]}

C24_ChunksWithinMaxLength ==
    /\ \A i \in DOMAIN length_chunks :
            /\ Len(length_chunks[i]) <= max_length
            /\ LET from == windows[i][1]
                   end == from + max_length
               IN  (/\ from >= 0
                    /\ end < Len(source_text)
                    /\ \A p \in Max(from, end - look_back)..(end - 1) : source_text[p + 1] = "a")
                   => Len(length_chunks[i]) = max_length
    /\ \A i \in DOMAIN html_chunks :
            (method = "hybrid" \/ html_chunks[i].origin # "accumulated") =>
                Len(html_chunks[i].text) <= max_length

\* The hybrid method returned a chunk cut at exactly max_length out of a
\* tag-based chunk that was too long, and a piece of an element that alone
\* exceeded max_length.
C24_HybridRechunkedAtMaxLength ==
    /\ pc = "returned"
    /\ method = "hybrid"
    /\ \E i \in DOMAIN html_chunks :
            html_chunks[i].origin = "rechunked" /\ Len(html_chunks[i].text) = max_length
    /\ \E i \in DOMAIN html_chunks : html_chunks[i].origin = "element"

(***************************************************************************)
(* The order of pass 2.                                                    *)
(***************************************************************************)
\* a comes before b in (priority ascending, relevance_score descending,
\* chunk_index ascending).
PassTwoBefore(a, b) ==
    \/ SortsBefore(a, b)
    \/ /\ a.priority = b.priority
       /\ a.relevance_score = b.relevance_score
       /\ a.chunk_index < b.chunk_index

\* The analysis of the chunk of the i-th extraction call.
CalledAnalysis(i) == analyses[p2_calls[i].chunk_index + 1]

\* The first of the extracted chunks of a content type in the sorted order.
FirstOfGroup(ctype) ==
    CHOOSE a \in {CalledAnalysis(i) : i \in DOMAIN p2_calls} :
        /\ a.content_type = ctype
        /\ \A i \in DOMAIN p2_calls :
                CalledAnalysis(i).content_type = ctype =>
                    (CalledAnalysis(i) = a \/ PassTwoBefore(a, CalledAnalysis(i)))

C28_InputsNeitherChangedNorShared ==
    SecondPassOver =>
        /\ results_after = extraction_results
        /\ shared = {}

(***************************************************************************)
(* Properties of the website type detection.                               *)
(***************************************************************************)
\* The group of website_patterns whose domain list holds the URL's domain.
GroupsOfDomain ==
    {g \in DOMAIN website_patterns :
        _extract_domain(site_url) \in website_patterns[g].domains}

\* C26: detect_website_type returns the type of a known-domain group only
\* when the URL's domain is in that group's domain list; for a URL whose
\* domain is in no list the content sample decides: review if the review
\* indicator count exceeds the e-commerce indicator count and is at least
\* 2, otherwise e-commerce if the e-commerce count is at least 2, otherwise
\* general.
C26_TypeFromDomainOrContent ==
    pc = "detected" =>
        /\ matched_by = "domain" =>
                \E g \in GroupsOfDomain : website_patterns[g].type = website_type
        /\ GroupsOfDomain = {} =>
                LET review_score == indicator_score(1, Lower(content_sample))
                    ecommerce_score == indicator_score(2, Lower(content_sample))
                IN  /\ matched_by = "content"
                    /\ website_type =
                        IF review_score > ecommerce_score /\ review_score >= 2 THEN "REVIEW"
                        ELSE IF ecommerce_score >= 2 THEN "ECOMMERCE"
                        ELSE "GENERAL"

(***************************************************************************)
(* Properties of the PDF text extraction.                                  *)
(***************************************************************************)
EngineFailed(engine) == pdf_engines[engine].kind # "pages"

\* C25: extract_text_from_pdf tries the engines in the order primary,
\* secondary, OCR, moves to the next engine only after the previous one
\* failed, and returns the text of the first engine that succeeds; when the
\* file is missing or every engine fails it returns the empty string, and
\* it never raises.
C25_FirstWorkingEngineOrEmpty ==
    /\ pc # "raised"
    /\ engines_tried = SubSeq(EngineOrder, 1, Len(engines_tried))
    /\ \A i \in 1..(Len(engines_tried) - 1) : EngineFailed(engines_tried[i])
    /\ pc = "pdf_returned" =>
        IF ~pdf_exists THEN engines_tried = <<>> /\ pdf_text = ""
        ELSE IF \A engine \in Range(EngineOrder) : EngineFailed(engine)
             THEN engines_tried = EngineOrder /\ pdf_text = ""
        ELSE LET last == engines_tried[Len(engines_tried)]
             IN  /\ ~EngineFailed(last)
                 /\ pdf_text = JoinPages(pdf_engines[last].pages)

\* The primary engine was missing, the secondary raised, and the text of
\* two pages read by OCR was returned.
C25_OcrTextAfterTwoFailures ==
    /\ pc = "pdf_returned"
    /\ pdf_engines["primary"].kind = "missing"
    /\ pdf_engines["secondary"].kind = "error"
    /\ engines_tried = EngineOrder
    /\ pdf_text = "Scan\n\nPage content\n\n"
=============================================================================
